---- MODULE Spec2Model ----
(***************************************************************************)
(* Verification model of the lotuslk ML pipeline:                          *)
(*   - AnomalyDetector.combineAnomalyDetections  (src/unnamed/part_001)    *)
(*   - RecommendationEngine.determineRecommendation                        *)
(*                               (src/src/models/recommendationEngine.js)  *)
(*   - DataPipeline.processFii / processBatch and its cache                *)
(*                               (src/src/pipeline/dataPipeline.js)        *)
(*   - RecommendationEngine: weights, score calculators and                *)
(*     generateRecommendation with its cache                               *)
(*   - AnomalyDetector: the Z-score and IQR detectors and                  *)
(*     detectDividendAnomalies with its fallbacks                          *)
(*                                                                         *)
(* Real-valued scores are kept as exact integers: anomaly scores in tenths *)
(* (0.6 is 6), recommendation scores in hundredths (0.55 is 55).  Time is  *)
(* counted in hours (the pipeline's maxAge of 4*60*60*1000 ms is 4).       *)
(***************************************************************************)
EXTENDS Integers, Sequences, FiniteSets, TLC

VARIABLES
    \* ---- AnomalyDetector ensemble ----
    methods,          \* the `methods` map, as the sequence Object.values walks
    ensembleMethod,   \* this.config.ensembleMethod
    combinedIndices,  \* the array combineAnomalyDetections returned last
    combinedOf,       \* how many entries `methods` had at that call, -1: none yet
    combinedScores,   \* the anomalyScore sums and counts of those indices
    \* ---- RecommendationEngine classifier ----
    score,            \* combined score handed to determineRecommendation
    recommendation,   \* what determineRecommendation returned for it
    \* ---- DataPipeline ----
    now,              \* Date.now(), in hours
    cache,            \* this.cache: kind -> ticker -> entry
    forecaster,       \* this.priceForecaster: trained, model
    autoencoder,      \* this.anomalyDetector.autoencoder
    calls,            \* the processFii invocations: call id -> frame
    batch,            \* the processBatch invocation, if any
    \* ---- RecommendationEngine weights ----
    preferences,      \* the argument of adjustWeightsByPreferences
    weights,          \* what adjustWeightsByPreferences returned for it
    \* ---- RecommendationEngine score calculators ----
    signal,           \* the argument of a calculate*Score method
    component,        \* what the calculator returned for it
    \* ---- RecommendationEngine.generateRecommendation ----
    engine,           \* the engine: initialized, cache
    requests,         \* the generateRecommendation invocations
    \* ---- AnomalyDetector statistical methods ----
    series,           \* the `values` array handed to a detector
    methodResult,     \* what the detector returned for it
    \* ---- AnomalyDetector.detectDividendAnomalies ----
    detector,         \* the detector: initialized, autoencoder, cache
    detections        \* the detectDividendAnomalies invocations

vars == <<methods, ensembleMethod, combinedIndices, combinedOf, combinedScores,
          score,
          recommendation, now, cache, forecaster, autoencoder, calls, batch,
          preferences, weights, signal, component, engine, requests,
          series, methodResult, detector, detections>>

ensembleVars ==
    <<methods, ensembleMethod, combinedIndices, combinedOf, combinedScores>>
classifierVars == <<score, recommendation>>
pipelineVars == <<now, cache, forecaster, autoencoder, calls, batch>>
weightVars == <<preferences, weights>>
calculatorVars == <<signal, component>>
engineVars == <<engine, requests>>
statisticVars == <<series, methodResult>>
detectorVars == <<detector, detections>>

None == "none"

Range(s) == {s[i] : i \in 1..Len(s)}

\* The parts of the program a specification does not exercise stay as they
\* are before construction.
IdleWeights == preferences = <<>> /\ weights = <<>>

IdleCalculators == signal = <<>> /\ component = <<>>

IdleEngine == engine = <<>> /\ requests = <<>>

IdleStatistics == series = <<>> /\ methodResult = <<>>

IdleDetector == detector = <<>> /\ detections = <<>>

IdleRest ==
    /\ IdleWeights
    /\ IdleCalculators
    /\ IdleEngine
    /\ IdleStatistics
    /\ IdleDetector

UNCHANGED_rest ==
    /\ UNCHANGED weightVars
    /\ UNCHANGED calculatorVars
    /\ UNCHANGED engineVars
    /\ UNCHANGED statisticVars
    /\ UNCHANGED detectorVars

(***************************************************************************)
(* AnomalyDetector.combineAnomalyDetections                                *)
(***************************************************************************)

\* Number of observations of the series: indices are 0..NumPoints-1.
NumPoints == 2
\* Largest number of detection methods in the `methods` map.
MaxMethods == 4

Indices == 0..(NumPoints - 1)

\* The method names, in the order detectDividendAnomalies inserts them.
MethodNames == <<"zScore", "iqr", "isolationForest", "autoencoder", "extra">>

\* Scores a method may report for a flagged index, in tenths.
FlaggedScores == {0, 5, 7}

\* Strictly ascending sequences over Indices: every detector pushes the
\* indices while walking the series once, front to back.
RECURSIVE AscendingFrom(_)
AscendingFrom(lo) ==
    IF lo >= NumPoints THEN {<<>>}
    ELSE AscendingFrom(lo + 1)
         \cup {<<lo>> \o s : s \in AscendingFrom(lo + 1)}

IndexLists == AscendingFrom(0)

\* One MethodResult {anomalyIndices, anomalyScores}; the score of an index
\* the method did not flag is never read by the combiner and is fixed at 0.
ScoresFor(idx) ==
    {f \in [Indices -> FlaggedScores \cup {0}] :
        \A i \in Indices : i \notin Range(idx) => f[i] = 0}

MethodResults ==
    UNION {{[anomalyIndices |-> idx, anomalyScores |-> sc] :
                sc \in ScoresFor(idx)} : idx \in IndexLists}

\* The three accumulators of combineAnomalyDetections.
EmptyAcc == [allIndices |-> <<>>,
             indexCounts |-> [i \in Indices |-> 0],
             indexScores |-> [i \in Indices |-> 0]]

\* indexCounts[index]++ (and the first-sight indexCounts[index] = 1).
BumpCountStuck(count) == 1

BumpCount(count) == count + 1

\* method.anomalyIndices.forEach(index => ...), from position k on.
RECURSIVE CollectIndices(_, _, _)
CollectIndices(acc, method, k) ==
    IF k > Len(method.anomalyIndices) THEN acc
    ELSE LET index == method.anomalyIndices[k]
             sc == method.anomalyScores[index]
             acc1 == [allIndices |->
                          IF index \in Range(acc.allIndices)
                          THEN acc.allIndices
                          ELSE Append(acc.allIndices, index),
                      indexCounts |->
                          [acc.indexCounts EXCEPT ![index] = BumpCount(@)],
                      indexScores |->
                          [acc.indexScores EXCEPT ![index] = @ + sc]]
         IN CollectIndices(acc1, method, k + 1)

\* Object.values(methods).forEach(method => ...), from position m on.
RECURSIVE CollectMethods(_, _, _)
CollectMethods(acc, ms, m) ==
    IF m > Len(ms) THEN acc
    ELSE CollectMethods(CollectIndices(acc, ms[m].result, 1), ms, m + 1)

\* Math.ceil(methodCount / 2)
MajorityThresholdOff(methodCount) == methodCount \div 2

MajorityThreshold(methodCount) == (methodCount + 1) \div 2

\* The 'weighted' cut: indexScores[index] / indexCounts[index] >= 0.6,
\* with the sum in tenths.
WeightedThreshold == 6

WeightedPassesSum(sum, count) == sum >= WeightedThreshold

WeightedPasses(sum, count) == sum >= WeightedThreshold * count

\* The final else branch: combinedIndices.push(...allIndices).
AnyBranchAgreed(acc) ==
    SelectSeq(acc.allIndices, LAMBDA i : acc.indexCounts[i] >= 2)

AnyBranch(acc) == acc.allIndices

combineAnomalyDetections(ms, policy) ==
    LET acc == CollectMethods(EmptyAcc, ms, 1)
        methodCount == Len(ms)
    IN IF policy = "majority"
       THEN SelectSeq(acc.allIndices,
                LAMBDA i : acc.indexCounts[i] >= MajorityThreshold(methodCount))
       ELSE IF policy = "weighted"
       THEN SelectSeq(acc.allIndices,
                LAMBDA i : WeightedPasses(acc.indexScores[i], acc.indexCounts[i]))
       ELSE AnyBranch(acc)

EnsemblePolicies == {"majority", "weighted", "any"}

\* methods.<name> = <result of one detection method>
AddMethod(r) ==
    /\ Len(methods) < MaxMethods
    /\ methods' = Append(methods,
                         [name |-> MethodNames[Len(methods) + 1], result |-> r])
    /\ UNCHANGED <<ensembleMethod, combinedIndices, combinedOf, combinedScores>>
    /\ UNCHANGED classifierVars
    /\ UNCHANGED pipelineVars
    /\ UNCHANGED_rest

\* method.anomalyScores[index] || 1, in tenths.
OrOne(sc) == IF sc = 0 THEN 10 ELSE sc

\* The forEach of lines 158-163 over the first m methods: the sum and the
\* count of the scores of the methods that flagged the index.
RECURSIVE AnomalyScoreParts(_, _, _)
AnomalyScoreParts(ms, index, m) ==
    IF m = 0 THEN [sum |-> 0, methodCount |-> 0]
    ELSE LET before == AnomalyScoreParts(ms, index, m - 1)
         IN  IF index \in Range(ms[m].result.anomalyIndices)
             THEN [sum |-> before.sum
                               + OrOne(ms[m].result.anomalyScores[index]),
                   methodCount |-> before.methodCount + 1]
             ELSE before

\* const anomalyIndices = this.combineAnomalyDetections(methods), and the
\* anomalyScore of every index of it: sum / methodCount.
Combine ==
    /\ combinedIndices' = combineAnomalyDetections(methods, ensembleMethod)
    /\ combinedOf' = Len(methods)
    /\ combinedScores' =
           LET anomalyIndices ==
                   combineAnomalyDetections(methods, ensembleMethod)
           IN  [p \in 1..Len(anomalyIndices) |->
                   AnomalyScoreParts(methods, anomalyIndices[p], Len(methods))]
    /\ UNCHANGED <<methods, ensembleMethod>>
    /\ UNCHANGED classifierVars
    /\ UNCHANGED pipelineVars
    /\ UNCHANGED_rest

IdleClassifier == score = [isNaN |-> FALSE, v |-> 0] /\ recommendation = None

\* The pipeline before it is constructed.
IdlePipeline ==
    /\ now = 0
    /\ cache = <<>>
    /\ forecaster = <<>>
    /\ autoencoder = "-"
    /\ calls = <<>>
    /\ batch = <<>>

InitEnsemble ==
    /\ methods = <<>>
    /\ ensembleMethod \in EnsemblePolicies
    /\ combinedIndices = <<>>
    /\ combinedOf = -1
    /\ combinedScores = <<>>
    /\ IdleClassifier
    /\ IdlePipeline
    /\ IdleRest

NextEnsemble ==
    \/ \E r \in MethodResults : AddMethod(r)
    \/ Combine

SpecEnsemble == InitEnsemble /\ [][NextEnsemble]_vars

(***************************************************************************)
(* RecommendationEngine.determineRecommendation                            *)
(***************************************************************************)

\* Largest magnitude of a combined score tried, in hundredths.
MaxScore == 110

\* A JavaScript number: a value in hundredths, or NaN.
Num(v) == [isNaN |-> FALSE, v |-> v]

NaN == [isNaN |-> TRUE, v |-> 0]

Scores == {Num(v) : v \in -MaxScore..MaxScore} \cup {NaN}

\* this.config.thresholds, in hundredths.
StrongBuy == 70
Buy == 55
Sell == -55
StrongSell == -70

\* JavaScript's >= and <= of a number against a threshold: false for NaN.
Geq(a, b) == ~a.isNaN /\ a.v >= b

Leq(a, b) == ~a.isNaN /\ a.v <= b

determineRecommendationSellFirst(s) ==
    IF Geq(s, StrongBuy) THEN "strong_buy"
    ELSE IF Geq(s, Buy) THEN "buy"
    ELSE IF Leq(s, Sell) THEN "sell"
    ELSE IF Leq(s, StrongSell) THEN "strong_sell"
    ELSE "hold"

determineRecommendation(s) ==
    IF Geq(s, StrongBuy) THEN "strong_buy"
    ELSE IF Geq(s, Buy) THEN "buy"
    ELSE IF Leq(s, StrongSell) THEN "strong_sell"
    ELSE IF Leq(s, Sell) THEN "sell"
    ELSE "hold"

\* const recommendation = this.determineRecommendation(combinedScore)
Classify(s) ==
    /\ score' = s
    /\ recommendation' = determineRecommendation(s)
    /\ UNCHANGED ensembleVars
    /\ UNCHANGED pipelineVars
    /\ UNCHANGED_rest

IdleEnsemble ==
    /\ methods = <<>>
    /\ ensembleMethod = "majority"
    /\ combinedIndices = <<>>
    /\ combinedOf = -1
    /\ combinedScores = <<>>

InitClassifier ==
    /\ IdleClassifier
    /\ IdleEnsemble
    /\ IdlePipeline
    /\ IdleRest

NextClassifier == \E s \in Scores : Classify(s)

SpecClassifier == InitClassifier /\ [][NextClassifier]_vars

(***************************************************************************)
(* DataPipeline: processFii, processBatch and the result cache.            *)
(*                                                                         *)
(* A processFii invocation is a frame with a program counter; one action   *)
(* is the code that runs between two awaits.  A model output is kept as    *)
(* its provenance: the call that computed it, the ticker whose data        *)
(* trained the model that produced it, and the trend it reports.           *)
(***************************************************************************)

\* Most processFii invocations made during a run.
MaxCalls == 2
\* Last hour the clock reaches.
MaxTime == 4
\* Hours between two looks at the clock.
TickHours == 2

\* const maxAge = 4 * 60 * 60 * 1000, in hours.
MaxAge == 4

Tickers == {"A", "B"}

Kinds == {"forecasts", "sentiments", "anomalies"}

\* Trends the forecaster's predictions may show (calculateTrend).
ForecastTrends == {"strong_up", "down"}
\* Trends of the aggregated sentiment (mapSentimentToTrend).
SentimentTrends == {"positive"}
\* Risk levels of the anomaly statistics (calculateRiskLevel).
RiskLevels == {"high"}

\* A stage result.  by: the call that built it (0: no result); degraded:
\* it is the catch block's placeholder; model: the ticker whose data
\* trained the model that produced it.
NoResult == [by |-> 0, degraded |-> FALSE, trend |-> "-", model |-> "-"]

RealResult(c, trend, model) ==
    [by |-> c, degraded |-> FALSE, trend |-> trend, model |-> model]

\* catch of generatePriceForecast: {predictions: [], metrics: {error},
\* trend: 'neutral'}.
ForecastPlaceholder(c) ==
    [by |-> c, degraded |-> TRUE, trend |-> "neutral", model |-> "-"]

\* catch of analyzeSentiment: {aggregated: {score: 0, label: 'neutral'},
\* trend: 'neutral'}.
SentimentPlaceholder(c) ==
    [by |-> c, degraded |-> TRUE, trend |-> "neutral", model |-> "-"]

\* catch of detectAnomalies: {anomalies: [], riskLevel: 'unknown'}.
AnomalyPlaceholder(c) ==
    [by |-> c, degraded |-> TRUE, trend |-> "unknown", model |-> "-"]

NoEntry == [data |-> NoResult, timestamp |-> -1]

NoRecommendation == [recommendation |-> "-", score |-> 0, reasons |-> <<>>]

\* isCacheValid(timestamp)
isCacheValid(timestamp) == (now - timestamp) < MaxAge

\* this.cache.<kind>[ticker] && this.isCacheValid(...timestamp)
CacheHit(kind, t) ==
    /\ cache[kind][t].data.by # 0
    /\ isCacheValid(cache[kind][t].timestamp)

\* this.cache.<kind>[ticker] = {data, timestamp: Date.now()}
CachePutIfAbsent(ch, kind, t, data) ==
    IF ch[kind][t].data.by # 0 /\ (now - ch[kind][t].timestamp) < MaxAge
    THEN ch
    ELSE [ch EXCEPT ![kind][t] = [data |-> data, timestamp |-> now]]

CachePut(ch, kind, t, data) ==
    [ch EXCEPT ![kind][t] = [data |-> data, timestamp |-> now]]

\* updateCache(ticker, {priceForecast, sentimentAnalysis, anomalies}): the
\* three results are objects, so every `if (data.x)` is taken.
updateCache(ch, t, f) ==
    CachePut(CachePut(CachePut(ch, "forecasts", t, f.priceForecast),
                      "sentiments", t, f.sentimentAnalysis),
             "anomalies", t, f.anomalies)

\* generateRecommendations(ticker, data): the pipeline's rule-based score.
generateRecommendations(priceForecast, sentimentAnalysis, anomalies) ==
    LET priceTrend == priceForecast.trend
        sentimentTrend == sentimentAnalysis.trend
        riskLevel == anomalies.trend
        s1 == IF priceTrend = "strong_up" THEN 2
              ELSE IF priceTrend = "up" THEN 1
              ELSE IF priceTrend = "down" THEN -1
              ELSE IF priceTrend = "strong_down" THEN -2
              ELSE 0
        s2 == IF sentimentTrend = "very_positive" THEN 2
              ELSE IF sentimentTrend = "positive" THEN 1
              ELSE IF sentimentTrend = "negative" THEN -1
              ELSE IF sentimentTrend = "very_negative" THEN -2
              ELSE 0
        s3 == IF riskLevel = "high" THEN -1
              ELSE IF riskLevel = "low" THEN 1
              ELSE 0
        sc == s1 + s2 + s3
        rec == IF sc >= 3 THEN "strong_buy"
               ELSE IF sc >= 1 THEN "buy"
               ELSE IF sc <= -3 THEN "strong_sell"
               ELSE IF sc <= -1 THEN "sell"
               ELSE "hold"
        r1 == IF priceTrend \in {"strong_up", "up"} THEN <<"price_up">>
              ELSE IF priceTrend \in {"strong_down", "down"}
                   THEN <<"price_down">>
              ELSE <<>>
        r2 == IF sentimentTrend \in {"very_positive", "positive"}
              THEN <<"sentiment_positive">>
              ELSE IF sentimentTrend \in {"very_negative", "negative"}
                   THEN <<"sentiment_negative">>
              ELSE <<>>
        r3 == IF riskLevel = "high" THEN <<"dividend_anomalies">>
              ELSE IF riskLevel = "low" THEN <<"stable_dividends">>
              ELSE <<>>
    IN [recommendation |-> rec, score |-> sc, reasons |-> r1 \o r2 \o r3]

\* A fresh processFii frame.
NewFrame(t, inBatch) ==
    [ticker |-> t, pc |-> "prices", inBatch |-> inBatch, settled |-> FALSE,
     log |-> <<>>, pred |-> NoResult,
     priceForecast |-> NoResult, sentimentAnalysis |-> NoResult,
     anomalies |-> NoResult, recommendations |-> NoRecommendation]

CallIds == 1..Len(calls)

At(c, pc) == c \in CallIds /\ calls[c].pc = pc

Logged(f, ev) == [f EXCEPT !.log = Append(@, ev)]

NoBatch == [active |-> FALSE, returned |-> FALSE, tickers |-> <<>>,
            first |-> 0,
            results |-> [t \in Tickers |-> [set |-> FALSE, call |-> 0]],
            errors |-> <<>>]

UNCHANGED_others ==
    UNCHANGED ensembleVars /\ UNCHANGED classifierVars /\ UNCHANGED_rest

\* Date.now() moves on.
Tick ==
    /\ now + TickHours <= MaxTime
    /\ now' = now + TickHours
    /\ UNCHANGED <<cache, forecaster, autoencoder, calls, batch>>
    /\ UNCHANGED_others

\* pipeline.processFii(t): runs up to the first await, with
\* getHistoricalPrices in flight.
StartFii(t) ==
    /\ Len(calls) < MaxCalls
    /\ calls' = Append(calls, NewFrame(t, FALSE))
    /\ UNCHANGED <<now, cache, forecaster, autoencoder, batch>>
    /\ UNCHANGED_others

\* Duplicate-free ticker lists of length 1..2.
TickerLists ==
    {<<t>> : t \in Tickers}
    \cup {l \in {<<t, u>> : t \in Tickers, u \in Tickers} : l[1] # l[2]}

\* pipeline.processBatch(tickers): tickers.map(async ...) starts every
\* processFii, in list order, before anything else runs.
StartBatch(ts) ==
    /\ ~batch.active
    /\ Len(calls) + Len(ts) <= MaxCalls
    /\ calls' = calls \o [k \in 1..Len(ts) |-> NewFrame(ts[k], TRUE)]
    /\ batch' = [NoBatch EXCEPT !.active = TRUE, !.tickers = ts,
                                !.first = Len(calls) + 1]
    /\ UNCHANGED <<now, cache, forecaster, autoencoder>>
    /\ UNCHANGED_others

\* await getHistoricalPrices(...) settles; on success getHistoricalDividends
\* is called next.
CollectPrices(c, ok) ==
    /\ At(c, "prices")
    /\ calls' = [calls EXCEPT ![c] =
          IF ok THEN [Logged(@, "collect:prices") EXCEPT !.pc = "dividends"]
          ELSE [Logged(@, "collect:rejected") EXCEPT !.pc = "rejected"]]
    /\ UNCHANGED <<now, cache, forecaster, autoencoder, batch>>
    /\ UNCHANGED_others

\* await getHistoricalDividends(...) settles.
CollectDividends(c, ok) ==
    /\ At(c, "dividends")
    /\ calls' = [calls EXCEPT ![c] =
          IF ok THEN [Logged(@, "collect:dividends") EXCEPT !.pc = "forecast"]
          ELSE [Logged(@, "collect:rejected") EXCEPT !.pc = "rejected"]]
    /\ UNCHANGED <<now, cache, forecaster, autoencoder, batch>>
    /\ UNCHANGED_others

\* The frame of call c with its price-forecast stage ended in the catch
\* block of generatePriceForecast.
ForecastFailedRethrows(f, c) ==
    [Logged(f, "forecast:fail") EXCEPT !.pc = "rejected"]

ForecastFailed(f, c) ==
    [Logged(f, "forecast:fail") EXCEPT !.priceForecast = ForecastPlaceholder(c),
                                       !.pc = "sentiment"]

\* const predictions = await this.priceForecaster.predict(prices, days):
\* predict runs to its end at the call; it throws unless trained and a
\* model exist, and (ok = FALSE) when the prices are fewer than windowSize.
Predict(f, c, ok, trend) ==
    IF forecaster.trained /\ forecaster.model # "-" /\ ok
    THEN [f EXCEPT !.pred = RealResult(c, trend, forecaster.model),
                   !.pc = "evaluate"]
    ELSE ForecastFailed(f, c)

\* train is called only while the forecaster is not trained.
NeedsTraining == ~forecaster.trained

\* generatePriceForecast(ticker, historicalData) up to its first await:
\* the cache check, then train (prepareData normalises, createModel
\* replaces this.model, fit is awaited) or, when trained, predict.
ForecastBegin(c, ok, trend) ==
    /\ At(c, "forecast")
    /\ LET t == calls[c].ticker
           f == Logged(calls[c], "forecast:begin")
       IN IF CacheHit("forecasts", t)
          THEN /\ calls' = [calls EXCEPT ![c] =
                    [Logged(f, "forecast:hit") EXCEPT
                        !.priceForecast = cache["forecasts"][t].data,
                        !.pc = "sentiment"]]
               /\ UNCHANGED forecaster
          ELSE IF NeedsTraining
          THEN IF ok
               THEN /\ forecaster' = [forecaster EXCEPT !.model = t]
                    /\ calls' = [calls EXCEPT ![c] =
                          [f EXCEPT !.pc = "training"]]
               ELSE /\ calls' = [calls EXCEPT ![c] = ForecastFailed(f, c)]
                    /\ UNCHANGED forecaster
          ELSE /\ calls' = [calls EXCEPT ![c] =
                    Predict(f, c, ok, trend)]
               /\ UNCHANGED forecaster
    /\ UNCHANGED <<now, cache, autoencoder, batch>>
    /\ UNCHANGED_others

\* await this.model.fit(...) settles inside train: on success
\* this.trained = true and train returns.
TrainSettle(c, ok) ==
    /\ At(c, "training")
    /\ IF ok
       THEN /\ forecaster' = [forecaster EXCEPT !.trained = TRUE]
            /\ calls' = [calls EXCEPT ![c].pc = "predict"]
       ELSE /\ calls' = [calls EXCEPT ![c] = ForecastFailed(@, c)]
            /\ UNCHANGED forecaster
    /\ UNCHANGED <<now, cache, autoencoder, batch>>
    /\ UNCHANGED_others

\* generatePriceForecast resumes after `await train(prices)`: predict.
PredictAfterTrain(c, ok, trend) ==
    /\ At(c, "predict")
    /\ calls' = [calls EXCEPT ![c] =
          Predict(@, c, ok, trend)]
    /\ UNCHANGED <<now, cache, forecaster, autoencoder, batch>>
    /\ UNCHANGED_others

\* generatePriceForecast resumes after `await predict`: evaluate(test
\* slice) returns the metrics or throws.
Evaluate(c, ok) ==
    /\ At(c, "evaluate")
    /\ calls' = [calls EXCEPT ![c] =
          IF ok THEN [@ EXCEPT !.pc = "store"] ELSE ForecastFailed(@, c)]
    /\ UNCHANGED <<now, cache, forecaster, autoencoder, batch>>
    /\ UNCHANGED_others

\* generatePriceForecast resumes after `await evaluate`: the forecast is
\* formatted, written to this.cache.forecasts[ticker] and returned.
StoreForecast(c) ==
    /\ At(c, "store")
    /\ LET t == calls[c].ticker
           forecast == calls[c].pred
       IN /\ cache' = CachePut(cache, "forecasts", t, forecast)
          /\ calls' = [calls EXCEPT ![c] =
                [Logged(@, "forecast:ok") EXCEPT !.priceForecast = forecast,
                                                 !.pc = "sentiment"]]
    /\ UNCHANGED <<now, forecaster, autoencoder, batch>>
    /\ UNCHANGED_others

\* analyzeSentiment(ticker) up to its first await: the cache check, then
\* analyzeNewsSentiment is called.
SentimentBegin(c) ==
    /\ At(c, "sentiment")
    /\ LET t == calls[c].ticker
           f == Logged(calls[c], "sentiment:begin")
       IN calls' = [calls EXCEPT ![c] =
             IF CacheHit("sentiments", t)
             THEN [Logged(f, "sentiment:hit") EXCEPT
                      !.sentimentAnalysis = cache["sentiments"][t].data,
                      !.pc = "anomaly"]
             ELSE [Logged(f, "sentiment:model") EXCEPT !.pc = "analyzing"]]
    /\ UNCHANGED <<now, cache, forecaster, autoencoder, batch>>
    /\ UNCHANGED_others

\* await analyzeNewsSentiment(...) settles: the aggregate is computed,
\* written to this.cache.sentiments[ticker] and returned, or the catch
\* block returns the neutral placeholder.
SentimentSettle(c, ok, trend) ==
    /\ At(c, "analyzing")
    /\ LET t == calls[c].ticker
           sentiment == RealResult(c, trend, t)
       IN IF ok
          THEN /\ cache' = CachePut(cache, "sentiments", t, sentiment)
               /\ calls' = [calls EXCEPT ![c] =
                     [Logged(@, "sentiment:ok") EXCEPT
                         !.sentimentAnalysis = sentiment, !.pc = "anomaly"]]
          ELSE /\ calls' = [calls EXCEPT ![c] =
                     [Logged(@, "sentiment:fail") EXCEPT
                         !.sentimentAnalysis = SentimentPlaceholder(c),
                         !.pc = "anomaly"]]
               /\ UNCHANGED cache
    /\ UNCHANGED <<now, forecaster, autoencoder, batch>>
    /\ UNCHANGED_others

\* detectAnomalies(ticker, dividendData) up to its first await: the cache
\* check, then detectDividendAnomalies is called.
AnomalyBegin(c) ==
    /\ At(c, "anomaly")
    /\ LET t == calls[c].ticker
           f == Logged(calls[c], "anomaly:begin")
       IN calls' = [calls EXCEPT ![c] =
             IF CacheHit("anomalies", t)
             THEN [Logged(f, "anomaly:hit") EXCEPT
                      !.anomalies = cache["anomalies"][t].data,
                      !.pc = "recommend"]
             ELSE [Logged(f, "anomaly:model") EXCEPT !.pc = "detecting"]]
    /\ UNCHANGED <<now, cache, forecaster, autoencoder, batch>>
    /\ UNCHANGED_others

\* await detectDividendAnomalies(...) settles.  The detector keeps the
\* autoencoder it trained on the first feature batch it saw
\* (detectAnomaliesWithAutoencoder: if (!this.autoencoder) train) and
\* scores every later batch with it.
AnomalySettle(c, ok, risk) ==
    /\ At(c, "detecting")
    /\ LET t == calls[c].ticker
           enc == IF autoencoder = "-" THEN t ELSE autoencoder
           result == RealResult(c, risk, enc)
       IN IF ok
          THEN /\ autoencoder' = enc
               /\ cache' = CachePut(cache, "anomalies", t, result)
               /\ calls' = [calls EXCEPT ![c] =
                     [Logged(@, "anomaly:ok") EXCEPT
                         !.anomalies = result, !.pc = "recommend"]]
          ELSE /\ calls' = [calls EXCEPT ![c] =
                     [Logged(@, "anomaly:fail") EXCEPT
                         !.anomalies = AnomalyPlaceholder(c),
                         !.pc = "recommend"]]
               /\ UNCHANGED <<cache, autoencoder>>
    /\ UNCHANGED <<now, forecaster, batch>>
    /\ UNCHANGED_others

\* The data processFii hands to generateRecommendations: its own locals.
RecommendationInputsFromCache(f) ==
    [priceForecast |-> cache["forecasts"][f.ticker].data,
     sentimentAnalysis |-> cache["sentiments"][f.ticker].data,
     anomalies |-> cache["anomalies"][f.ticker].data]

RecommendationInputs(f) ==
    [priceForecast |-> f.priceForecast,
     sentimentAnalysis |-> f.sentimentAnalysis,
     anomalies |-> f.anomalies]

\* processFii resumes after `await detectAnomalies`: generateRecommendations,
\* updateCache and the return run without a further await.
Finish(c) ==
    /\ At(c, "recommend")
    /\ LET in == RecommendationInputs(calls[c])
           f == [Logged(Logged(calls[c], "recommend"), "cache") EXCEPT
                    !.recommendations =
                        generateRecommendations(in.priceForecast,
                                                in.sentimentAnalysis,
                                                in.anomalies),
                    !.pc = "resolved"]
       IN /\ calls' = [calls EXCEPT ![c] = f]
          /\ cache' = updateCache(cache, f.ticker, f)
    /\ UNCHANGED <<now, forecaster, autoencoder, batch>>
    /\ UNCHANGED_others

\* The try/catch of processBatch's per-ticker closure, for call c with
\* frame f: results[ticker] = <the result of c>, or errors.push and
\* results[ticker] = null (call 0).
ClosureSettledNoNull(b, f, c) ==
    IF f.pc = "resolved"
    THEN [b EXCEPT !.results[f.ticker] = [set |-> TRUE, call |-> c]]
    ELSE [b EXCEPT !.errors = Append(@, f.ticker)]

ClosureSettled(b, f, c) ==
    IF f.pc = "resolved"
    THEN [b EXCEPT !.results[f.ticker] = [set |-> TRUE, call |-> c]]
    ELSE [b EXCEPT !.results[f.ticker] = [set |-> TRUE, call |-> 0],
                   !.errors = Append(@, f.ticker)]

\* processBatch's per-ticker closure resumes after `await processFii`:
\* results[ticker] = <result>, or the catch block pushes to errors and
\* sets results[ticker] = null.
BatchSettle(c) ==
    /\ c \in CallIds
    /\ calls[c].inBatch /\ ~calls[c].settled
    /\ calls[c].pc \in {"resolved", "rejected"}
    /\ calls' = [calls EXCEPT ![c].settled = TRUE]
    /\ batch' = ClosureSettled(batch, calls[c], c)
    /\ UNCHANGED <<now, cache, forecaster, autoencoder>>
    /\ UNCHANGED_others

\* await Promise.all(...) settles: return {results, errors}.
BatchReturn ==
    /\ batch.active /\ ~batch.returned
    /\ \A c \in CallIds : calls[c].inBatch => calls[c].settled
    /\ batch' = [batch EXCEPT !.returned = TRUE]
    /\ UNCHANGED <<now, cache, forecaster, autoencoder, calls>>
    /\ UNCHANGED_others

\* new DataPipeline(): empty caches, untrained forecaster, no autoencoder.
InitPipeline ==
    /\ now = 0
    /\ cache = [k \in Kinds |-> [t \in Tickers |-> NoEntry]]
    /\ forecaster = [trained |-> FALSE, model |-> "-"]
    /\ autoencoder = "-"
    /\ calls = <<>>
    /\ batch = NoBatch
    /\ IdleEnsemble
    /\ IdleClassifier
    /\ IdleRest

\* The steps of the processFii invocations in flight.
StageStep ==
    \/ \E c \in 1..MaxCalls, ok \in BOOLEAN : CollectPrices(c, ok)
    \/ \E c \in 1..MaxCalls, ok \in BOOLEAN : CollectDividends(c, ok)
    \/ \E c \in 1..MaxCalls, ok \in BOOLEAN, trend \in ForecastTrends :
          ForecastBegin(c, ok, trend)
    \/ \E c \in 1..MaxCalls, ok \in BOOLEAN : TrainSettle(c, ok)
    \/ \E c \in 1..MaxCalls, ok \in BOOLEAN, trend \in ForecastTrends :
          PredictAfterTrain(c, ok, trend)
    \/ \E c \in 1..MaxCalls, ok \in BOOLEAN : Evaluate(c, ok)
    \/ \E c \in 1..MaxCalls : StoreForecast(c)
    \/ \E c \in 1..MaxCalls : SentimentBegin(c)
    \/ \E c \in 1..MaxCalls, ok \in BOOLEAN, trend \in SentimentTrends :
          SentimentSettle(c, ok, trend)
    \/ \E c \in 1..MaxCalls : AnomalyBegin(c)
    \/ \E c \in 1..MaxCalls, ok \in BOOLEAN, risk \in RiskLevels :
          AnomalySettle(c, ok, risk)
    \/ \E c \in 1..MaxCalls : Finish(c)

\* A pipeline whose processFii is called directly (the dashboard).
Next ==
    \/ Tick
    \/ \E t \in Tickers : StartFii(t)
    \/ StageStep

Spec == InitPipeline /\ [][Next]_vars

\* A pipeline that serves one processBatch call.
NextBatch ==
    \/ Tick
    \/ \E ts \in TickerLists : StartBatch(ts)
    \/ StageStep
    \/ \E c \in 1..MaxCalls : BatchSettle(c)
    \/ BatchReturn

SpecBatch == InitPipeline /\ [][NextBatch]_vars

(***************************************************************************)
(* Claims about the ensemble combiner                                      *)
(***************************************************************************)

\* The methods of the map that flagged index i.
FlaggedBy(ms, i) ==
    {m \in 1..Len(ms) : i \in Range(ms[m].result.anomalyIndices)}

RECURSIVE SumScores(_, _, _)
SumScores(ms, S, i) ==
    IF S = {} THEN 0
    ELSE LET m == CHOOSE x \in S : TRUE
         IN ms[m].result.anomalyScores[i] + SumScores(ms, S \ {m}, i)

\* combinedIndices is the answer for the methods map as it stands.
CombinedIsCurrent == combinedOf = Len(methods) /\ Len(methods) >= 1

\* C1: under 'majority' the combiner returns exactly the indices flagged by
\* at least ceil(N/2) of the N methods of the map (N >= 1, as the detector
\* always passes zScore, iqr and isolationForest); methods that flagged
\* nothing count towards N, and no other index is returned.
C1_MajorityExact ==
    (CombinedIsCurrent /\ ensembleMethod = "majority") =>
        LET N == Len(methods)
            need == IF N % 2 = 0 THEN N \div 2 ELSE (N \div 2) + 1
        IN Range(combinedIndices) =
               {i \in Indices : Cardinality(FlaggedBy(methods, i)) >= need}

\* C1 witness: three methods, an index flagged by exactly two of them is
\* returned and an index flagged by exactly one is not.
C1_Witness ==
    /\ CombinedIsCurrent
    /\ ensembleMethod = "majority"
    /\ Len(methods) = 3
    /\ \E i, j \in Indices :
          /\ Cardinality(FlaggedBy(methods, i)) = 2
          /\ Cardinality(FlaggedBy(methods, j)) = 1
          /\ i \in Range(combinedIndices)
          /\ j \notin Range(combinedIndices)

\* C2: for every methods map, the 'majority' result is a subset of the
\* 'any' result, and the 'any' result is the union of the methods'
\* anomalyIndices; so 'majority' never returns more indices than 'any'.
C2_MajoritySubsetOfAny ==
    LET maj == combineAnomalyDetections(methods, "majority")
        any == combineAnomalyDetections(methods, "any")
    IN /\ Range(maj) \subseteq Range(any)
       /\ Range(any) = {i \in Indices : FlaggedBy(methods, i) # {}}
       /\ Len(maj) <= Len(any)
       /\ Len(any) = Cardinality(Range(any))

\* C2 witness: a map of three methods for which 'majority', just computed,
\* returned strictly fewer indices than 'any' does.
C2_Witness ==
    /\ CombinedIsCurrent
    /\ ensembleMethod = "majority"
    /\ Len(methods) = 3
    /\ combinedIndices # <<>>
    /\ Len(combinedIndices) < Len(combineAnomalyDetections(methods, "any"))

\* C3: majority is monotonic: when a method is added to the map and the
\* new method flags an index that was in the 'majority' result before,
\* the index is in the 'majority' result after.
C3_MajorityMonotonic ==
    [][Len(methods') = Len(methods) + 1 =>
         \A i \in Indices :
            (/\ i \in Range(combineAnomalyDetections(methods, "majority"))
             /\ i \in Range(methods'[Len(methods')].result.anomalyIndices))
            => i \in Range(combineAnomalyDetections(methods', "majority"))]_vars

\* C3 witness: index i was only just in the majority of the first two
\* methods (one detection), the third method flags it too, and the
\* combiner run on all three returns it.
C3_Witness ==
    /\ CombinedIsCurrent
    /\ ensembleMethod = "majority"
    /\ Len(methods) = 3
    /\ \E i \in Indices :
          /\ Cardinality(FlaggedBy(SubSeq(methods, 1, 2), i)) = 1
          /\ i \in Range(combineAnomalyDetections(SubSeq(methods, 1, 2),
                                                  "majority"))
          /\ i \in Range(methods[3].result.anomalyIndices)
          /\ i \in Range(combinedIndices)

\* C4: under 'weighted' the combiner returns exactly the indices flagged
\* by at least one method whose average score over the methods that
\* flagged them is >= 0.6 (sum of tenths >= 6 * number of flagging methods).
C4_WeightedExact ==
    (CombinedIsCurrent /\ ensembleMethod = "weighted") =>
        Range(combinedIndices) =
            {i \in Indices :
                /\ FlaggedBy(methods, i) # {}
                /\ SumScores(methods, FlaggedBy(methods, i), i)
                     >= 6 * Cardinality(FlaggedBy(methods, i))}

\* C4 witness: an index flagged by two methods with scores 0.5 and 0.7
\* (average exactly 0.6) is returned although a third method that did not
\* flag it would pull the average below 0.6, and an index whose flagging
\* methods sum to more than 0.6 but average less is not returned.
C4_Witness ==
    /\ CombinedIsCurrent
    /\ ensembleMethod = "weighted"
    /\ Len(methods) = 3
    /\ \E i, j \in Indices :
          /\ Cardinality(FlaggedBy(methods, i)) = 2
          /\ SumScores(methods, FlaggedBy(methods, i), i) = 12
          /\ i \in Range(combinedIndices)
          /\ Cardinality(FlaggedBy(methods, j)) = 2
          /\ SumScores(methods, FlaggedBy(methods, j), j) = 10
          /\ j \notin Range(combinedIndices)

(***************************************************************************)
(* Claims about the recommendation classifier                              *)
(***************************************************************************)

\* C5: with the default thresholds the classifier is total and returns
\* strong_buy iff score >= 0.7, buy iff 0.55 <= score < 0.7, strong_sell
\* iff score <= -0.7, sell iff -0.7 < score <= -0.55, hold otherwise.
C5_ClassifierTable ==
    recommendation # None =>
        LET x == score.v
            isNum == ~score.isNaN
        IN /\ recommendation \in
                {"strong_buy", "buy", "hold", "sell", "strong_sell"}
           /\ (recommendation = "strong_buy") <=> (isNum /\ x >= 70)
           /\ (recommendation = "buy") <=> (isNum /\ x >= 55 /\ x < 70)
           /\ (recommendation = "strong_sell") <=> (isNum /\ x <= -70)
           /\ (recommendation = "sell") <=> (isNum /\ x > -70 /\ x <= -55)
           /\ (recommendation = "hold") <=> (~isNum \/ (x > -55 /\ x < 55))

\* C5 witness: the score -0.75 has been classified, as strong_sell.
C5_Witness ==
    ~score.isNaN /\ score.v = -75 /\ recommendation = "strong_sell"

(***************************************************************************)
(* Claims about the pipeline                                               *)
(***************************************************************************)

Has(f, ev) == ev \in Range(f.log)

Count(seq, x) == Cardinality({i \in 1..Len(seq) : seq[i] = x})

\* What a frame returns for a cache kind.
Output(f, kind) ==
    IF kind = "forecasts" THEN f.priceForecast
    ELSE IF kind = "sentiments" THEN f.sentimentAnalysis
    ELSE f.anomalies

Placeholder(kind, c) ==
    IF kind = "forecasts" THEN ForecastPlaceholder(c)
    ELSE IF kind = "sentiments" THEN SentimentPlaceholder(c)
    ELSE AnomalyPlaceholder(c)

FailEvent(kind) ==
    IF kind = "forecasts" THEN "forecast:fail"
    ELSE IF kind = "sentiments" THEN "sentiment:fail"
    ELSE "anomaly:fail"

OkEvent(kind) ==
    IF kind = "forecasts" THEN "forecast:ok"
    ELSE IF kind = "sentiments" THEN "sentiment:ok"
    ELSE "anomaly:ok"

BatchCall(k) == batch.first + k - 1

\* C7: when processBatch (of distinct tickers) returns, a ticker whose
\* data collection was rejected has results[t] = null and exactly one
\* entry in errors, every other ticker has the non-null result of its own
\* resolved processFii call and no entry in errors.
C7_BatchFailureIsPerTicker ==
    batch.returned =>
        /\ \A k \in 1..Len(batch.tickers) :
              LET t == batch.tickers[k]
                  c == BatchCall(k)
              IN IF Has(calls[c], "collect:rejected")
                 THEN /\ batch.results[t] = [set |-> TRUE, call |-> 0]
                      /\ Count(batch.errors, t) = 1
                 ELSE /\ batch.results[t] = [set |-> TRUE, call |-> c]
                      /\ calls[c].pc = "resolved"
                      /\ calls[c].recommendations # NoRecommendation
                      /\ Count(batch.errors, t) = 0
        /\ Range(batch.errors) \subseteq Range(batch.tickers)

\* C7 witness: a returned batch of two tickers, the first rejected by the
\* data source (null result, one error), the second with a result.
C7_Witness ==
    /\ batch.returned
    /\ Len(batch.tickers) = 2
    /\ Has(calls[BatchCall(1)], "collect:rejected")
    /\ batch.results[batch.tickers[1]].call = 0
    /\ batch.errors = <<batch.tickers[1]>>
    /\ batch.results[batch.tickers[2]].call = BatchCall(2)

\* C8: the tickers of a batch share no mutable state but the ticker-keyed
\* cache: every real forecast and every real anomaly result of a call was
\* produced by a model fitted to that call's own ticker, whatever other
\* ticker is processed alongside.
C8_NoSharedStateBetweenTickers ==
    \A c \in CallIds :
        /\ (calls[c].priceForecast.by # 0 /\ ~calls[c].priceForecast.degraded)
              => calls[c].priceForecast.model = calls[c].ticker
        /\ (calls[c].anomalies.by # 0 /\ ~calls[c].anomalies.degraded)
              => calls[c].anomalies.model = calls[c].ticker

\* C9: cache writes are unsynchronised, the last writer wins: whenever a
\* call completes a stage with a result of its own model run, the cache
\* entry of its ticker holds that result from then on (whatever valid
\* entry another call had put there), and when a call returns, the three
\* entries of its ticker hold what it returns.
C9_LastWriterWins ==
    [][\A c \in CallIds :
          LET f == calls'[c]
              t == f.ticker
              grew == Len(f.log) > Len(calls[c].log)
              last == f.log[Len(f.log)]
          IN grew =>
               /\ \A k \in Kinds :
                     last = OkEvent(k) =>
                        cache'[k][t] = [data |-> Output(f, k),
                                        timestamp |-> now]
               /\ last = "cache" =>
                     \A k \in Kinds :
                        cache'[k][t] = [data |-> Output(f, k),
                                        timestamp |-> now]]_vars

\* C9 witness (the stampede): no time has passed, two calls for the same
\* ticker both missed the forecast cache and both ran the model, and the
\* entry holds the second call's forecast, not the one the first call got.
C9_Witness ==
    /\ now = 0
    /\ Len(calls) = 2
    /\ calls[1].ticker = calls[2].ticker
    /\ Has(calls[1], "forecast:ok")
    /\ Has(calls[2], "forecast:ok")
    /\ calls[1].priceForecast.by = 1
    /\ calls[2].priceForecast.by = 2
    /\ cache["forecasts"][calls[1].ticker].data = calls[2].priceForecast
    /\ calls[1].priceForecast # calls[2].priceForecast

\* The events that end a stage, and the event each event must follow.
EndOf(stage) ==
    IF stage = "forecast"
    THEN {"forecast:hit", "forecast:ok", "forecast:fail"}
    ELSE IF stage = "sentiment"
    THEN {"sentiment:hit", "sentiment:ok", "sentiment:fail"}
    ELSE {"anomaly:hit", "anomaly:ok", "anomaly:fail"}

MayFollow(ev) ==
    IF ev = "collect:prices" THEN {"start"}
    ELSE IF ev = "collect:dividends" THEN {"collect:prices"}
    ELSE IF ev = "collect:rejected" THEN {"start", "collect:prices"}
    ELSE IF ev = "forecast:begin" THEN {"collect:dividends"}
    ELSE IF ev \in EndOf("forecast") THEN {"forecast:begin"}
    ELSE IF ev = "sentiment:begin" THEN EndOf("forecast")
    ELSE IF ev = "sentiment:model" THEN {"sentiment:begin"}
    ELSE IF ev = "sentiment:hit" THEN {"sentiment:begin"}
    ELSE IF ev \in {"sentiment:ok", "sentiment:fail"} THEN {"sentiment:model"}
    ELSE IF ev = "anomaly:begin" THEN EndOf("sentiment")
    ELSE IF ev = "anomaly:model" THEN {"anomaly:begin"}
    ELSE IF ev = "anomaly:hit" THEN {"anomaly:begin"}
    ELSE IF ev \in {"anomaly:ok", "anomaly:fail"} THEN {"anomaly:model"}
    ELSE IF ev = "recommend" THEN EndOf("anomaly")
    ELSE IF ev = "cache" THEN {"recommend"}
    ELSE {}

\* C10: within one processFii call the stages run in the order data
\* collection, price forecast, sentiment, anomaly detection,
\* recommendation, cache update, each beginning only after the one before
\* has ended, none twice; and the recommendation returned is the one
\* generateRecommendations gives for this call's own three outputs.
C10_StagesInOrder ==
    \A c \in CallIds :
        LET f == calls[c]
        IN /\ \A i \in 1..Len(f.log) :
                 /\ (IF i = 1 THEN "start" ELSE f.log[i - 1])
                        \in MayFollow(f.log[i])
                 /\ \A j \in 1..Len(f.log) : f.log[j] = f.log[i] => j = i
           /\ f.pc = "resolved" =>
                 /\ f.log[Len(f.log)] = "cache"
                 /\ f.recommendations =
                        generateRecommendations(f.priceForecast,
                                                f.sentimentAnalysis,
                                                f.anomalies)
           /\ f.pc # "resolved" => f.recommendations = NoRecommendation
           /\ ~Has(f, "sentiment:begin") => f.sentimentAnalysis = NoResult
           /\ ~Has(f, "anomaly:begin") => f.anomalies = NoResult
           /\ ~Has(f, "forecast:begin") => f.priceForecast = NoResult

\* C10 witness: two overlapping calls for one ticker have both returned,
\* with different forecasts, and so with different recommendations, each
\* from its own outputs.
C10_Witness ==
    /\ Len(calls) = 2
    /\ calls[1].ticker = calls[2].ticker
    /\ calls[1].pc = "resolved" /\ calls[2].pc = "resolved"
    /\ Has(calls[1], "forecast:ok") /\ Has(calls[2], "forecast:ok")
    /\ calls[1].priceForecast.trend = "strong_up"
    /\ calls[2].priceForecast.trend = "down"
    /\ calls[1].recommendations.recommendation = "buy"
    /\ calls[2].recommendations.recommendation = "sell"

(***************************************************************************)
(* RecommendationEngine.adjustWeightsByPreferences                         *)
(*                                                                         *)
(* Weights are exact: the configured weights are in hundredths, every      *)
(* multiplier is in tenths (10 where the code leaves a weight alone), so   *)
(* after the three adjustments all four weights share the unit 1/100000.   *)
(* A normalized weight is the fraction num/den.                            *)
(***************************************************************************)

WeightKeys == {"priceForecasting", "sentiment", "anomalies", "fundamentals"}

\* this.config.weights of an engine built without a weights option,
\* in hundredths.
DefaultWeights ==
    [priceForecasting |-> 40, sentiment |-> 30, anomalies |-> 20,
     fundamentals |-> 10]

RiskTolerances == {"low", "moderate", "high"}

InvestmentHorizons == {"short", "medium", "long"}

\* incomePreference, in tenths: both sides of 0.3 and 0.7 and the limits.
IncomePreferences == {0, 2, 3, 5, 7, 8, 10}

Preferences ==
    [riskTolerance : RiskTolerances, investmentHorizon : InvestmentHorizons,
     incomePreference : IncomePreferences]

\* No weight is touched: every multiplier is 1.0.
Untouched == [k \in WeightKeys |-> 10]

\* weights.<k> *= <m>, for every key at once.
Multiply(w, m) == [k \in WeightKeys |-> w[k] * m[k]]

RiskFactorsSwapped(p) ==
    IF p.riskTolerance = "high"
    THEN [Untouched EXCEPT !.anomalies = 15, !.fundamentals = 13,
                           !.priceForecasting = 8]
    ELSE IF p.riskTolerance = "low"
    THEN [Untouched EXCEPT !.priceForecasting = 13, !.sentiment = 12,
                           !.anomalies = 7]
    ELSE Untouched

RiskFactors(p) ==
    IF p.riskTolerance = "low"
    THEN [Untouched EXCEPT !.anomalies = 15, !.fundamentals = 13,
                           !.priceForecasting = 8]
    ELSE IF p.riskTolerance = "high"
    THEN [Untouched EXCEPT !.priceForecasting = 13, !.sentiment = 12,
                           !.anomalies = 7]
    ELSE Untouched

HorizonFactors(p) ==
    IF p.investmentHorizon = "short"
    THEN [Untouched EXCEPT !.sentiment = 13, !.priceForecasting = 12,
                           !.fundamentals = 7]
    ELSE IF p.investmentHorizon = "long"
    THEN [Untouched EXCEPT !.fundamentals = 15, !.anomalies = 12,
                           !.sentiment = 8]
    ELSE Untouched

IncomeFactors(p) ==
    IF p.incomePreference > 7
    THEN [Untouched EXCEPT !.anomalies = 13]
    ELSE IF p.incomePreference < 3
    THEN [Untouched EXCEPT !.priceForecasting = 13]
    ELSE Untouched

\* The normalizing divisor taken before the adjustments instead of after.
WeightSumOfBase(w) == 1000 *
    (DefaultWeights.priceForecasting + DefaultWeights.sentiment
     + DefaultWeights.anomalies + DefaultWeights.fundamentals)

\* Object.values(weights).reduce((a, b) => a + b, 0)
WeightSum(w) ==
    w.priceForecasting + w.sentiment + w.anomalies + w.fundamentals

adjustWeightsByPreferences(p) ==
    LET adjusted ==
            Multiply(Multiply(Multiply(DefaultWeights, RiskFactors(p)),
                              HorizonFactors(p)),
                     IncomeFactors(p))
        sum == WeightSum(adjusted)
    IN  [k \in WeightKeys |-> [num |-> adjusted[k], den |-> sum]]

\* No call made yet.
NoWeights == [k \in WeightKeys |-> [num |-> 0, den |-> 0]]

\* const weights = this.adjustWeightsByPreferences(effectivePreferences)
AdjustWeights ==
    /\ weights = NoWeights
    /\ weights' = adjustWeightsByPreferences(preferences)
    /\ UNCHANGED preferences
    /\ UNCHANGED <<ensembleVars, classifierVars, pipelineVars>>
    /\ UNCHANGED <<calculatorVars, engineVars, statisticVars, detectorVars>>

\* The caller forgets the returned weights.
DropWeights ==
    /\ weights # NoWeights
    /\ weights' = NoWeights
    /\ UNCHANGED preferences
    /\ UNCHANGED <<ensembleVars, classifierVars, pipelineVars>>
    /\ UNCHANGED <<calculatorVars, engineVars, statisticVars, detectorVars>>

InitWeights ==
    /\ preferences \in Preferences
    /\ weights = NoWeights
    /\ IdleEnsemble
    /\ IdleClassifier
    /\ IdlePipeline
    /\ IdleCalculators
    /\ IdleEngine
    /\ IdleStatistics
    /\ IdleDetector

NextWeights == AdjustWeights \/ DropWeights

SpecWeights == InitWeights /\ [][NextWeights]_vars

(***************************************************************************)
(* Claims about the preference-adjusted weights                            *)
(***************************************************************************)

WeightsReturned == weights # NoWeights

\* C13: for every preference combination the four weights returned by
\* adjustWeightsByPreferences sum to 1: they share one positive divisor and
\* their numerators add up to it.
C13_WeightsSumToOne ==
    WeightsReturned =>
        /\ \A k \in WeightKeys : weights[k].den = weights.anomalies.den
        /\ weights.anomalies.den > 0
        /\ weights.priceForecasting.num + weights.sentiment.num
           + weights.anomalies.num + weights.fundamentals.num
           = weights.anomalies.den

\* C13 happens: weights were returned for preferences that adjust in all
\* three steps, so the sum before renormalization was not 1.
C13_Witness ==
    /\ WeightsReturned
    /\ preferences.riskTolerance = "high"
    /\ preferences.investmentHorizon = "short"
    /\ preferences.incomePreference = 0
    /\ weights.anomalies.den # 100000

\* C14: with the default base weights and riskTolerance 'low' the returned
\* anomalies weight is strictly greater than the base anomalies weight 0.2,
\* for every investmentHorizon and incomePreference.
C14_LowRiskRaisesAnomalyWeight ==
    (WeightsReturned /\ preferences.riskTolerance = "low") =>
        weights.anomalies.num * 100
            > DefaultWeights.anomalies * weights.anomalies.den

\* C14 happens: low risk tolerance together with the preferences that push
\* the other weights up the most (short horizon, growth preference).
C14_Witness ==
    /\ WeightsReturned
    /\ preferences.riskTolerance = "low"
    /\ preferences.investmentHorizon = "short"
    /\ preferences.incomePreference = 0
    /\ weights.anomalies.num * 100 < 25 * weights.anomalies.den

(***************************************************************************)
(* RecommendationEngine score calculators                                  *)
(*                                                                         *)
(* A component score is a JavaScript number kept in units of 1/1200, so    *)
(* that hundredths and their means over one to four factors are exact.     *)
(* Inputs are chosen so that every division the code makes is exact.       *)
(***************************************************************************)

\* The score 1.0.
One == 1200

\* Stands for Infinity: larger than every finite value the model forms.
Huge == 1000000

\* Math.max(-1, Math.min(1, x)): NaN stays NaN.
Clamp(x) ==
    IF x.isNaN THEN NaN
    ELSE IF x.v > One THEN Num(One)
    ELSE IF x.v < -One THEN Num(-One)
    ELSE x

\* x * m for a multiplier m in tenths.
Times(x, m) == IF x.isNaN THEN NaN ELSE Num((x.v * m) \div 10)

\* An optional property of an object: absent reads as undefined.
Absent == [present |-> FALSE, v |-> 0]

Given(v) == [present |-> TRUE, v |-> v]

\* ---- calculatePriceScore ----

\* forecast.predictions as the list of its prices; the first price is 0 or
\* 100, the last one moves it by -100%, -5%, 0, +3% or +20%.
PricePaths ==
    {<<>>} \cup {<<f>> : f \in {0, 100}}
           \cup {<<f, l>> : f \in {0, 100}, l \in {0, 95, 100, 103, 120}}

ForecastConfidences == {"undefined", "high", "medium", "low"}

Forecasts ==
    {[given |-> FALSE, predictions |-> <<>>, confidence |-> "undefined"]}
    \cup [given : {TRUE}, predictions : PricePaths,
          confidence : ForecastConfidences]

\* ((lastPrice - firstPrice) / firstPrice) * 100 / 10
PercentChangeOverTen(firstPrice, lastPrice) ==
    IF firstPrice = 0
    THEN IF lastPrice = 0 THEN NaN
         ELSE IF lastPrice > 0 THEN Num(Huge) ELSE Num(-Huge)
    ELSE Num((10 * One * (lastPrice - firstPrice)) \div firstPrice)

calculatePriceScore(forecast) ==
    IF ~forecast.given \/ Len(forecast.predictions) = 0 THEN Num(0)
    ELSE LET firstPrice == forecast.predictions[1]
             lastPrice == forecast.predictions[Len(forecast.predictions)]
             limited == Clamp(PercentChangeOverTen(firstPrice, lastPrice))
         IN  IF forecast.confidence # "undefined"
             THEN Times(limited, IF forecast.confidence = "high" THEN 10
                                 ELSE IF forecast.confidence = "medium" THEN 8
                                 ELSE 6)
             ELSE limited

\* ---- calculateSentimentScore ----

SentimentLabels ==
    {"very_positive", "positive", "neutral", "negative", "very_negative",
     "mixed"}

\* sentiment.aggregated.score when supplied: -1.5, -0.4, 0, 0.9, 2.
DirectScores == {-1800, -480, 0, 1080, 2400}

\* sentiment.aggregated.confidence when supplied, in tenths.
SentimentConfidences == {Absent, Given(0), Given(5), Given(10)}

Sentiments ==
    {[aggregated |-> FALSE, score |-> Absent, label |-> "neutral",
      confidence |-> Absent]}
    \cup [aggregated : {TRUE}, score : {Given(s) : s \in DirectScores},
          label : {"neutral"}, confidence : {Absent}]
    \cup [aggregated : {TRUE}, score : {Absent}, label : SentimentLabels,
          confidence : SentimentConfidences]

\* labelScores[label] || 0
LabelScore(label) ==
    IF label = "very_positive" THEN Num((8 * One) \div 10)
    ELSE IF label = "positive" THEN Num((5 * One) \div 10)
    ELSE IF label = "negative" THEN Num(-((5 * One) \div 10))
    ELSE IF label = "very_negative" THEN Num(-((8 * One) \div 10))
    ELSE Num(0)

calculateSentimentScore(sentiment) ==
    IF ~sentiment.aggregated THEN Num(0)
    ELSE IF sentiment.score.present THEN Num(sentiment.score.v)
    ELSE Times(LabelScore(sentiment.label),
               IF sentiment.confidence.present /\ sentiment.confidence.v # 0
               THEN sentiment.confidence.v ELSE 7)

\* ---- calculateAnomalyScore ----

\* anomaly.deviation, in percent of the mean.
Deviations == {-50, 0, 25, 200}

Severities == {"high", "medium", "low"}

AnomalyRecords ==
    [type : {"high_value", "low_value"}, deviation : Deviations,
     severity : Severities]

AnomalyLists ==
    {<<>>} \cup {<<a>> : a \in AnomalyRecords}
           \cup {<<a, b>> : a \in {r \in AnomalyRecords : r.severity = "high"},
                            b \in AnomalyRecords}

AnomalyReports ==
    {[given |-> FALSE, anomalies |-> <<>>]}
    \cup [given : {TRUE}, anomalies : AnomalyLists]

Abs(x) == IF x < 0 THEN -x ELSE x

Min(a, b) == IF a < b THEN a ELSE b

\* The body of the forEach: the impact of one anomaly.
AnomalyImpact(anomaly) ==
    LET base == IF anomaly.type = "high_value" THEN One \div 2
                ELSE IF anomaly.type = "low_value" THEN -(One \div 2)
                ELSE 0
        byDeviation == (base * Min(50, Abs(anomaly.deviation))) \div 50
        severityMultiplier == IF anomaly.severity = "high" THEN 10
                              ELSE IF anomaly.severity = "medium" THEN 7
                              ELSE 4
    IN  (byDeviation * severityMultiplier) \div 10

RECURSIVE TotalImpact(_, _)
TotalImpact(anomalies, k) ==
    IF k = 0 THEN 0
    ELSE TotalImpact(anomalies, k - 1) + AnomalyImpact(anomalies[k])

calculateAnomalyScore(report) ==
    IF ~report.given THEN Num(0)
    ELSE IF Len(report.anomalies) = 0 THEN Num(One \div 10)
    ELSE Clamp(Num(TotalImpact(report.anomalies, Len(report.anomalies))
                   \div Len(report.anomalies)))

\* ---- calculateFundamentalScore ----

\* fundamentals.pvp, in hundredths.
PvpValues == {-70, 35, 63, 70, 110, 120, 135, 200}

\* fundamentals.dividendYield and fundamentals.vacancy, in percent.
YieldValues == {2, 4, 6, 8}

VacancyValues == {5, 10, 15, 20}

\* fundamentals.liquidity; "undefined" is the absent property.
LiquidityValues == {"undefined", "high", "medium", "low"}

Optional(S) == {Absent} \cup {Given(v) : v \in S}

Fundamentals ==
    {[given |-> FALSE, pvp |-> Absent, dividendYield |-> Absent,
      vacancy |-> Absent, liquidity |-> "undefined"]}
    \cup [given : {TRUE}, pvp : Optional(PvpValues),
          dividendYield : Optional(YieldValues),
          vacancy : Optional(VacancyValues), liquidity : LiquidityValues]

PvpIncrement(pvp) ==
    IF pvp < 70 THEN (One * (pvp - 70)) \div 70
    ELSE IF pvp <= 110 THEN One \div 2
    ELSE (One \div 2) - Min(One \div 2, (One * (pvp - 110)) \div 50)

YieldIncrement(dividendYield) ==
    IF dividendYield >= 8 THEN (8 * One) \div 10
    ELSE IF dividendYield >= 6 THEN (5 * One) \div 10
    ELSE IF dividendYield >= 4 THEN (2 * One) \div 10
    ELSE -((2 * One) \div 10)

VacancyIncrement(vacancy) ==
    IF vacancy <= 5 THEN (7 * One) \div 10
    ELSE IF vacancy <= 10 THEN (3 * One) \div 10
    ELSE IF vacancy <= 15 THEN -((2 * One) \div 10)
    ELSE -((6 * One) \div 10)

LiquidityIncrement(liquidity) ==
    IF liquidity = "high" THEN (4 * One) \div 10
    ELSE IF liquidity = "medium" THEN (2 * One) \div 10
    ELSE -((2 * One) \div 10)

\* The running pair (score, factorsCount) before the first signal.
NoFactors == [sum |-> 0, factorsCount |-> 0]

AddFactorUncounted(acc, present, increment) ==
    IF present THEN [sum |-> acc.sum + increment,
                     factorsCount |-> IF acc.factorsCount = 0 THEN 1
                                      ELSE acc.factorsCount]
    ELSE acc

\* if (fundamentals.<signal> !== undefined) { score += ...; factorsCount++ }
AddFactor(acc, present, increment) ==
    IF present THEN [sum |-> acc.sum + increment,
                     factorsCount |-> acc.factorsCount + 1]
    ELSE acc

calculateFundamentalScore(fundamentals) ==
    IF ~fundamentals.given THEN Num(0)
    ELSE LET a1 == AddFactor(NoFactors, fundamentals.pvp.present,
                             PvpIncrement(fundamentals.pvp.v))
             a2 == AddFactor(a1, fundamentals.dividendYield.present,
                             YieldIncrement(fundamentals.dividendYield.v))
             a3 == AddFactor(a2, fundamentals.vacancy.present,
                             VacancyIncrement(fundamentals.vacancy.v))
             a4 == AddFactor(a3, fundamentals.liquidity # "undefined",
                             LiquidityIncrement(fundamentals.liquidity))
         IN  Clamp(Num(IF a4.factorsCount > 0
                       THEN a4.sum \div a4.factorsCount
                       ELSE a4.sum))

\* ---- the four calculators as operations ----

NotComputed == [done |-> FALSE, value |-> Num(0)]

Computed(x) == [done |-> TRUE, value |-> x]

UNCHANGED_calculatorRest ==
    /\ UNCHANGED <<ensembleVars, classifierVars, pipelineVars>>
    /\ UNCHANGED <<weightVars, engineVars, statisticVars, detectorVars>>

\* const priceScore = this.calculatePriceScore(mlResults.priceForecast)
CalculatePrice ==
    /\ signal.kind = "price" /\ ~component.done
    /\ component' = Computed(calculatePriceScore(signal.arg))
    /\ UNCHANGED signal
    /\ UNCHANGED_calculatorRest

\* const sentimentScore = this.calculateSentimentScore(...)
CalculateSentiment ==
    /\ signal.kind = "sentiment" /\ ~component.done
    /\ component' = Computed(calculateSentimentScore(signal.arg))
    /\ UNCHANGED signal
    /\ UNCHANGED_calculatorRest

\* const anomalyScore = this.calculateAnomalyScore(mlResults.anomalies)
CalculateAnomaly ==
    /\ signal.kind = "anomaly" /\ ~component.done
    /\ component' = Computed(calculateAnomalyScore(signal.arg))
    /\ UNCHANGED signal
    /\ UNCHANGED_calculatorRest

\* const fundamentalScore = this.calculateFundamentalScore(fundamentalData)
CalculateFundamental ==
    /\ signal.kind = "fundamental" /\ ~component.done
    /\ component' = Computed(calculateFundamentalScore(signal.arg))
    /\ UNCHANGED signal
    /\ UNCHANGED_calculatorRest

InitCalculators ==
    /\ \/ \E a \in Forecasts : signal = [kind |-> "price", arg |-> a]
       \/ \E a \in Sentiments : signal = [kind |-> "sentiment", arg |-> a]
       \/ \E a \in AnomalyReports : signal = [kind |-> "anomaly", arg |-> a]
       \/ \E a \in Fundamentals : signal = [kind |-> "fundamental", arg |-> a]
    /\ component = NotComputed
    /\ IdleEnsemble
    /\ IdleClassifier
    /\ IdlePipeline
    /\ IdleWeights
    /\ IdleEngine
    /\ IdleStatistics
    /\ IdleDetector

NextCalculators ==
    \/ CalculatePrice
    \/ CalculateSentiment
    \/ CalculateAnomaly
    \/ CalculateFundamental

SpecCalculators == InitCalculators /\ [][NextCalculators]_vars

(***************************************************************************)
(* Claims about the score calculators                                      *)
(***************************************************************************)

\* C15: every component score lies in [-1,1]: whatever the input, each of
\* the four calculators returns a number between -1 and 1 inclusive.
C15_ComponentScoresBounded ==
    component.done =>
        /\ ~component.value.isNaN
        /\ component.value.v >= -One
        /\ component.value.v <= One

\* The signals of a fundamentals object that are present.
PresentIncrements(f) ==
    (IF f.pvp.present THEN {<<"pvp", PvpIncrement(f.pvp.v)>>} ELSE {})
    \cup (IF f.dividendYield.present
          THEN {<<"dividendYield", YieldIncrement(f.dividendYield.v)>>}
          ELSE {})
    \cup (IF f.vacancy.present
          THEN {<<"vacancy", VacancyIncrement(f.vacancy.v)>>} ELSE {})
    \cup (IF f.liquidity # "undefined"
          THEN {<<"liquidity", LiquidityIncrement(f.liquidity)>>} ELSE {})

RECURSIVE SumOfIncrements(_)
SumOfIncrements(S) ==
    IF S = {} THEN 0
    ELSE LET x == CHOOSE y \in S : TRUE
         IN  x[2] + SumOfIncrements(S \ {x})

\* C16: calculateFundamentalScore returns exactly 0 when fundamentals is
\* undefined or has none of the four signals, and otherwise the mean of the
\* increments of the signals that are present, clamped to [-1,1].
C16_FundamentalScoreIsClampedMean ==
    (component.done /\ signal.kind = "fundamental") =>
        LET present == PresentIncrements(signal.arg)
            total == SumOfIncrements(present)
            n == Cardinality(present)
        IN  /\ ~component.value.isNaN
            /\ (~signal.arg.given \/ n = 0) => component.value.v = 0
            /\ (signal.arg.given /\ n > 0) =>
                 /\ n * component.value.v
                      = (IF total > n * One THEN n * One
                         ELSE IF total < -(n * One) THEN -(n * One)
                         ELSE total)

\* C16 happens: all four signals present and their mean is taken.
C16_Witness ==
    /\ component.done /\ signal.kind = "fundamental"
    /\ signal.arg.given
    /\ signal.arg.pvp = Given(120)
    /\ signal.arg.dividendYield = Given(8)
    /\ signal.arg.vacancy = Given(20)
    /\ signal.arg.liquidity = "high"
    /\ component.value = Num(270)

(***************************************************************************)
(* RecommendationEngine.generateRecommendation and its cache               *)
(*                                                                         *)
(* An invocation runs to its only await (initialize, on a fresh engine)    *)
(* and later resumes; on an initialized engine it runs in one step.  The   *)
(* combined score is the exact fraction n/d of 1/1200 units.  Time is in   *)
(* hours: cacheExpiration of 24*60*60*1000 ms is 24.                       *)
(***************************************************************************)

\* Most generateRecommendation invocations on the engine.
MaxRequests == 3

\* Date.now() advances in steps of this many hours, up to MaxEngineTime.
EngineTickHours == 12

MaxEngineTime == 24

\* this.config.cacheExpiration, in hours.
CacheExpiration == 24

\* this.config.personalization of an engine built without that option.
DefaultPreferences ==
    [riskTolerance |-> "moderate", investmentHorizon |-> "medium",
     incomePreference |-> 5]

\* userPreferences as passed by the caller: null, {} or {riskTolerance: x}.
NullPreferences == [isNull |-> TRUE, riskTolerance |-> "undefined"]

UserPreferences ==
    {NullPreferences}
    \cup {[isNull |-> FALSE, riskTolerance |-> r] : r \in {"undefined", "low"}}

\* JSON.stringify(userPreferences): undefined properties are left out.
Stringify(p) ==
    IF p.isNull THEN <<"null">>
    ELSE IF p.riskTolerance = "undefined" THEN <<"{", "}">>
    ELSE <<"{", "riskTolerance", p.riskTolerance, "}">>

\* `recommendation-${ticker}-${JSON.stringify(userPreferences)}`
cacheKey(ticker, userPreferences) ==
    <<"recommendation", ticker, Stringify(userPreferences)>>

\* mergePreferences(userPreferences); reading a property of null throws.
mergePreferences(userPreferences) ==
    [riskTolerance |-> IF userPreferences.riskTolerance # "undefined"
                       THEN userPreferences.riskTolerance
                       ELSE DefaultPreferences.riskTolerance,
     investmentHorizon |-> DefaultPreferences.investmentHorizon,
     incomePreference |-> DefaultPreferences.incomePreference]

\* ---- the mlResults and fundamentalData the callers pass ----

NoForecast == [given |-> FALSE, predictions |-> <<>>, confidence |-> "undefined"]

NoSentiment ==
    [aggregated |-> FALSE, score |-> Absent, label |-> "neutral",
     confidence |-> Absent]

NoAnomalyReport == [given |-> FALSE, anomalies |-> <<>>, methods |-> 0]

\* mlResults is undefined or null.
MlMissing ==
    [given |-> FALSE, priceForecast |-> NoForecast,
     sentimentAnalysis |-> NoSentiment, anomalies |-> NoAnomalyReport]

\* A rising forecast, good news, no dividend anomalies.
MlUp ==
    [given |-> TRUE,
     priceForecast |-> [given |-> TRUE, predictions |-> <<100, 120>>,
                        confidence |-> "high"],
     sentimentAnalysis |-> [aggregated |-> TRUE, score |-> Given(1080),
                            label |-> "neutral", confidence |-> Absent],
     anomalies |-> [given |-> TRUE, anomalies |-> <<>>, methods |-> 4]]

\* A falling forecast, bad news, one low dividend.
MlDown ==
    [given |-> TRUE,
     priceForecast |-> [given |-> TRUE, predictions |-> <<100, 0>>,
                        confidence |-> "high"],
     sentimentAnalysis |-> [aggregated |-> TRUE, score |-> Given(-480),
                            label |-> "neutral", confidence |-> Absent],
     anomalies |-> [given |-> TRUE,
                    anomalies |-> <<[type |-> "low_value", deviation |-> -50,
                                     severity |-> "high"]>>,
                    methods |-> 4]]

\* A sub-result that is malformed: priceForecast.predictions is [].
MlEmptyPredictions ==
    [MlUp EXCEPT !.priceForecast.predictions = <<>>]

MlResults == {MlMissing, MlUp, MlDown, MlEmptyPredictions}

NoFundamentals ==
    [given |-> FALSE, pvp |-> Absent, dividendYield |-> Absent,
     vacancy |-> Absent, liquidity |-> "undefined"]

GoodFundamentals ==
    [given |-> TRUE, pvp |-> Absent, dividendYield |-> Absent,
     vacancy |-> Given(5), liquidity |-> "undefined"]

FundamentalData == {NoFundamentals, GoodFundamentals}

EngineTickers == {"A"}

RequestInputs ==
    [ticker : EngineTickers, mlResults : MlResults,
     fundamentalData : FundamentalData, userPreferences : UserPreferences]

\* ---- the synchronous helpers of generateRecommendation ----

\* priceScore * weights.priceForecasting + ... as the fraction n/d of
\* 1/1200 units; NaN if any term is NaN.
combinedScore(scores, w) ==
    IF \E k \in WeightKeys : scores[k].isNaN
    THEN [isNaN |-> TRUE, n |-> 0, d |-> 1]
    ELSE [isNaN |-> FALSE,
          n |-> scores.priceForecasting.v * w.priceForecasting.num
                + scores.sentiment.v * w.sentiment.num
                + scores.anomalies.v * w.anomalies.num
                + scores.fundamentals.v * w.fundamentals.num,
          d |-> w.anomalies.den]

\* The whole hundredths of n/d towards zero: enough to compare n/d with the
\* thresholds, which are whole hundredths (positive thresholds are tested
\* with >=, negative ones with <=).
WholeHundredths(x) ==
    IF x.isNaN THEN NaN
    ELSE IF x.n >= 0 THEN Num(x.n \div ((One \div 100) * x.d))
    ELSE Num(-((-x.n) \div ((One \div 100) * x.d)))

\* parseFloat(x.toFixed(2)): the nearest hundredth, halves away from zero.
toFixed2(x) ==
    IF x.isNaN THEN NaN
    ELSE IF x.n >= 0
    THEN Num((2 * x.n + (One \div 100) * x.d) \div (2 * (One \div 100) * x.d))
    ELSE Num(-((2 * (-x.n) + (One \div 100) * x.d)
               \div (2 * (One \div 100) * x.d)))

\* A component score as a fraction, for toFixed2.
AsFraction(s) == [isNaN |-> s.isNaN, n |-> s.v, d |-> 1]

\* calculateConfidence(mlResults): factor scores in units of 1/30.
calculateConfidence(ml) ==
    LET price == IF ml.priceForecast.given
                    /\ ml.priceForecast.confidence # "undefined"
                 THEN <<IF ml.priceForecast.confidence = "high" THEN 30
                        ELSE IF ml.priceForecast.confidence = "medium" THEN 18
                        ELSE 9>>
                 ELSE <<>>
        sentiment == IF ml.sentimentAnalysis.aggregated
                     THEN <<IF ml.sentimentAnalysis.confidence.present
                               /\ ml.sentimentAnalysis.confidence.v # 0
                            THEN 3 * ml.sentimentAnalysis.confidence.v
                            ELSE 15>>
                     ELSE <<>>
        anomaly == IF ml.anomalies.given
                   THEN <<Min(30, 10 * ml.anomalies.methods)>>
                   ELSE <<>>
        factors == price \o sentiment \o anomaly
        factorsCount == Len(factors)
        confidenceScore ==
            IF factorsCount = 0 THEN 0
            ELSE IF factorsCount = 1 THEN factors[1]
            ELSE IF factorsCount = 2 THEN factors[1] + factors[2]
            ELSE factors[1] + factors[2] + factors[3]
    IN  IF factorsCount = 0 THEN "medium"
        ELSE IF 10 * confidenceScore >= 7 * 30 * factorsCount THEN "high"
        ELSE IF 10 * confidenceScore >= 4 * 30 * factorsCount THEN "medium"
        ELSE "low"

\* generateReasons throws a TypeError when predictions is [] (it reads
\* predictions[0].price).
ReasonsThrow(ml) ==
    ml.priceForecast.given /\ Len(ml.priceForecast.predictions) = 0

\* generateReasons(...): the justifications, each named by its subject.
generateReasons(ml) ==
    (IF ml.priceForecast.given THEN <<"price">> ELSE <<>>)
    \o (IF ml.sentimentAnalysis.aggregated THEN <<"sentiment">> ELSE <<>>)
    \o (IF ml.anomalies.given THEN <<"dividends">> ELSE <<>>)
    \o <<"summary">>

\* ---- results and the cache ----

NoComponents ==
    [given |-> FALSE, priceScore |-> Num(0), sentimentScore |-> Num(0),
     anomalyScore |-> Num(0), fundamentalScore |-> Num(0)]

\* No result yet.
NoEngineResult ==
    [ticker |-> "-", recommendation |-> "-", score |-> Num(0),
     confidence |-> "-", reasons |-> <<>>, error |-> FALSE,
     components |-> NoComponents, timestamp |-> -1]

\* The record the catch block returns.
FallbackRecommendation(ticker) ==
    [ticker |-> ticker, recommendation |-> "hold", score |-> Num(0),
     confidence |-> "low", reasons |-> <<"error">>, error |-> TRUE,
     components |-> NoComponents, timestamp |-> now]

NoEngineEntry == [set |-> FALSE, data |-> NoEngineResult, timestamp |-> -1]

EngineKeys ==
    {cacheKey(t, p) : t \in EngineTickers, p \in UserPreferences}

\* RecommendationEngine.isCacheValid(timestamp)
isEngineCacheValid(timestamp) == (now - timestamp) < CacheExpiration

\* Lines 95-140: the result computed from the arguments alone.
FreshRecommendation(input) ==
    LET ml == input.mlResults
        effectivePreferences == mergePreferences(input.userPreferences)
        scores ==
            [priceForecasting |-> calculatePriceScore(ml.priceForecast),
             sentiment |-> calculateSentimentScore(ml.sentimentAnalysis),
             anomalies |-> calculateAnomalyScore(ml.anomalies),
             fundamentals |-> calculateFundamentalScore(input.fundamentalData)]
        w == adjustWeightsByPreferences(effectivePreferences)
        combined == combinedScore(scores, w)
    IN  [ticker |-> input.ticker,
         recommendation |-> determineRecommendation(WholeHundredths(combined)),
         score |-> toFixed2(combined),
         confidence |-> calculateConfidence(ml),
         reasons |-> generateReasons(ml),
         error |-> FALSE,
         components |->
             [given |-> TRUE,
              priceScore |-> toFixed2(AsFraction(scores.priceForecasting)),
              sentimentScore |-> toFixed2(AsFraction(scores.sentiment)),
              anomalyScore |-> toFixed2(AsFraction(scores.anomalies)),
              fundamentalScore |-> toFixed2(AsFraction(scores.fundamentals))],
         timestamp |-> now]

\* Whether the try block throws once the cache has been missed.
RecommendationThrows(input) ==
    \/ ~input.mlResults.given
    \/ input.userPreferences.isNull
    \/ ReasonsThrow(input.mlResults)

\* this.cache[cacheKey]: the entry under the ticker and the preferences.
CacheLookup(input) ==
    engine.cache[cacheKey(input.ticker, input.userPreferences)]

RecommendationFailedRejects(f) == [f EXCEPT !.pc = "rejected", !.threw = TRUE]

\* The catch block: the invocation resolves with the fallback record.
RecommendationFailed(f) ==
    [f EXCEPT !.pc = "resolved", !.threw = TRUE,
              !.result = FallbackRecommendation(f.input.ticker)]

\* The body of generateRecommendation from the cache check to the end.
\* Yields the settled frame and the cache it leaves behind.
RecommendationBody(f) ==
    LET input == f.input
        key == cacheKey(input.ticker, input.userPreferences)
        entry == CacheLookup(input)
    IN  IF entry.set /\ isEngineCacheValid(entry.timestamp)
        THEN [frame |-> [f EXCEPT !.pc = "resolved", !.hit = TRUE,
                                  !.result = entry.data],
              cache |-> engine.cache]
        ELSE IF RecommendationThrows(input)
        THEN [frame |-> RecommendationFailed(f), cache |-> engine.cache]
        ELSE LET result == FreshRecommendation(input)
             IN  [frame |-> [f EXCEPT !.pc = "resolved", !.result = result],
                  cache |-> [engine.cache EXCEPT
                                ![key] = [set |-> TRUE, data |-> result,
                                          timestamp |-> now]]]

NewRequest(input) ==
    [input |-> input, pc |-> "initializing", hit |-> FALSE, threw |-> FALSE,
     result |-> NoEngineResult]

UNCHANGED_engineRest ==
    /\ UNCHANGED <<ensembleVars, classifierVars>>
    /\ UNCHANGED <<cache, forecaster, autoencoder, calls, batch>>
    /\ UNCHANGED <<weightVars, calculatorVars, statisticVars, detectorVars>>

\* engine.generateRecommendation(...): on a fresh engine it stops at
\* `await this.initialize()`, which has already set initialized; otherwise
\* it runs to its end.
BeginRecommendation(input) ==
    /\ Len(requests) < MaxRequests
    /\ IF ~engine.initialized
       THEN /\ engine' = [engine EXCEPT !.initialized = TRUE]
            /\ requests' = Append(requests, NewRequest(input))
       ELSE LET done == RecommendationBody(NewRequest(input))
            IN  /\ engine' = [engine EXCEPT !.cache = done.cache]
                /\ requests' = Append(requests, done.frame)
    /\ UNCHANGED now
    /\ UNCHANGED_engineRest

\* The invocation that awaited initialize() resumes.
ResumeRecommendation(c) ==
    /\ c \in 1..Len(requests)
    /\ requests[c].pc = "initializing"
    /\ LET done == RecommendationBody(requests[c])
       IN  /\ engine' = [engine EXCEPT !.cache = done.cache]
           /\ requests' = [requests EXCEPT ![c] = done.frame]
    /\ UNCHANGED now
    /\ UNCHANGED_engineRest

\* engine.clearCache()
ClearEngineCache ==
    /\ \E k \in EngineKeys : engine.cache[k].set
    /\ engine' = [engine EXCEPT !.cache = [k \in EngineKeys |-> NoEngineEntry]]
    /\ UNCHANGED <<requests, now>>
    /\ UNCHANGED_engineRest

\* Date.now() moves on; a pending await resumes before any time passes.
EngineTick ==
    /\ \A c \in 1..Len(requests) : requests[c].pc # "initializing"
    /\ now + EngineTickHours <= MaxEngineTime
    /\ now' = now + EngineTickHours
    /\ UNCHANGED <<engine, requests>>
    /\ UNCHANGED_engineRest

\* new RecommendationEngine()
InitEngine ==
    /\ engine = [initialized |-> FALSE,
                 cache |-> [k \in EngineKeys |-> NoEngineEntry]]
    /\ requests = <<>>
    /\ now = 0
    /\ cache = <<>>
    /\ forecaster = <<>>
    /\ autoencoder = "-"
    /\ calls = <<>>
    /\ batch = <<>>
    /\ IdleEnsemble
    /\ IdleClassifier
    /\ IdleWeights
    /\ IdleCalculators
    /\ IdleStatistics
    /\ IdleDetector

NextEngine ==
    \/ \E input \in RequestInputs : BeginRecommendation(input)
    \/ \E c \in 1..MaxRequests : ResumeRecommendation(c)
    \/ ClearEngineCache
    \/ EngineTick

SpecEngine == InitEngine /\ [][NextEngine]_vars

(***************************************************************************)
(* Claims about generateRecommendation                                     *)
(***************************************************************************)

Settled(c) == requests[c].pc # "initializing"

\* C11: generateRecommendation never rejects: every invocation resolves to
\* a record, whatever the input (missing mlResults, null preferences, an
\* empty predictions list), and when the body threw that record has
\* recommendation 'hold', score 0, confidence 'low' and a single reason.
C11_NeverRejects ==
    \A c \in 1..Len(requests) :
        /\ requests[c].pc \in {"initializing", "resolved"}
        /\ (Settled(c) /\ ~requests[c].hit
              /\ RecommendationThrows(requests[c].input)) => requests[c].threw
        /\ (Settled(c) /\ requests[c].threw) =>
              /\ requests[c].result.recommendation = "hold"
              /\ requests[c].result.score = Num(0)
              /\ requests[c].result.confidence = "low"
              /\ Len(requests[c].result.reasons) = 1
        /\ (Settled(c) /\ ~requests[c].threw) =>
              /\ requests[c].result.recommendation
                    \in {"strong_buy", "buy", "hold", "sell", "strong_sell"}
              /\ Len(requests[c].result.reasons) >= 1

\* C11 happens: one engine served a call without mlResults, a call with
\* null preferences and a call whose predictions list is empty, and each
\* resolved with the fallback record.
C11_Witness ==
    /\ Len(requests) = 3
    /\ \A c \in 1..3 : requests[c].pc = "resolved" /\ requests[c].threw
    /\ requests[1].input.mlResults = MlMissing
    /\ requests[2].input.mlResults = MlUp
    /\ requests[2].input.userPreferences = NullPreferences
    /\ requests[3].input.mlResults = MlEmptyPredictions
    /\ ~requests[3].input.userPreferences.isNull

\* C12: generateRecommendation is a pure function of its inputs: any two
\* settled calls on the engine with identical (ticker, mlResults,
\* fundamentalData, userPreferences) returned the same score and the same
\* recommendation tier.
C12_SameInputsSameResult ==
    \A c1, c2 \in 1..Len(requests) :
        (Settled(c1) /\ Settled(c2) /\ requests[c1].input = requests[c2].input)
            => /\ requests[c1].result.score = requests[c2].result.score
               /\ requests[c1].result.recommendation
                    = requests[c2].result.recommendation

(***************************************************************************)
(* AnomalyDetector.detectAnomaliesWithZScore and detectAnomaliesWithIQR    *)
(*                                                                         *)
(* A series is a list of integers.  An anomaly score is the exact number   *)
(* num/den, or its square root when `sq` is set (the Z-score's square is   *)
(* rational, the Z-score is not), or NaN.  Bounds and quartiles of the IQR *)
(* detector are in halves, its multiplier too (1.5 is 3).                  *)
(***************************************************************************)

\* Longest series of freely chosen values.
MaxSeriesLen == 5

\* The values a series is made of.
SeriesValues == {-3, 0, 2, 4}

\* Length of the long series: nine equal values and one outlier, or ten
\* equal values.
LongSeriesLen == 10

RECURSIVE SeriesOfLen(_)
SeriesOfLen(n) ==
    IF n = 0 THEN {<<>>}
    ELSE {Append(s, v) : s \in SeriesOfLen(n - 1), v \in SeriesValues}

SeriesSet ==
    UNION {SeriesOfLen(n) : n \in 0..MaxSeriesLen}
    \cup {[i \in 1..LongSeriesLen |-> 4]}
    \cup {[i \in 1..LongSeriesLen |-> IF i = p THEN 100 ELSE 4] :
            p \in {1, LongSeriesLen}}

\* this.config.zScoreThreshold: 2.5
ZScoreThreshold == [num |-> 5, den |-> 2]

\* this.config.iqrMultiplier in halves: 0, 0.5, 1.5 (the default), 2.
IqrMultipliers == {0, 1, 3, 4}

ScoreNaN == [isNaN |-> TRUE, sq |-> FALSE, num |-> 0, den |-> 1]

Score(num, den) == [isNaN |-> FALSE, sq |-> FALSE, num |-> num, den |-> den]

RootScore(num, den) == [isNaN |-> FALSE, sq |-> TRUE, num |-> num, den |-> den]

RECURSIVE SumTo(_, _)
SumTo(xs, k) == IF k = 0 THEN 0 ELSE SumTo(xs, k - 1) + xs[k]

\* n * (values[i] - calculateMean(values)): the deviation from the mean,
\* scaled by the length so that it stays an integer.
ScaledDeviation(xs, i) == Len(xs) * xs[i] - SumTo(xs, Len(xs))

\* n^3 times the variance calculateStdDev takes the root of.
ScaledSquares(xs) ==
    SumTo([i \in 1..Len(xs) |-> ScaledDeviation(xs, i) * ScaledDeviation(xs, i)],
          Len(xs))

\* calculateStdDev(values, mean) === 0
StdDevIsZero(xs) == Len(xs) <= 1 \/ ScaledSquares(xs) = 0

\* zScore > this.config.zScoreThreshold, on the squares; NaN > t is false
\* and Infinity > t is true.
ExceedsThreshold(xs, i) ==
    IF StdDevIsZero(xs) THEN ScaledDeviation(xs, i) # 0
    ELSE ZScoreThreshold.den * ZScoreThreshold.den * Len(xs)
             * ScaledDeviation(xs, i) * ScaledDeviation(xs, i)
         > ZScoreThreshold.num * ZScoreThreshold.num * ScaledSquares(xs)

\* Math.min(zScore / (threshold * 2), 1) where zScore is
\* Math.abs((value - mean) / stdDev): 0/0 is NaN, x/0 is Infinity.
NormalizedZScore(xs, i) ==
    IF StdDevIsZero(xs)
    THEN IF ScaledDeviation(xs, i) = 0 THEN ScoreNaN ELSE Score(1, 1)
    ELSE LET zNum == ZScoreThreshold.den * ZScoreThreshold.den * Len(xs)
                        * ScaledDeviation(xs, i) * ScaledDeviation(xs, i)
             zDen == 4 * ZScoreThreshold.num * ZScoreThreshold.num
                        * ScaledSquares(xs)
         IN  IF zNum >= zDen THEN Score(1, 1) ELSE RootScore(zNum, zDen)

\* The positions i (1-based) of xs that satisfy Flag, ascending, as the
\* 0-based indices the code pushes.
RECURSIVE FlaggedUpTo(_, _, _)
FlaggedUpTo(xs, Flag(_, _), k) ==
    IF k = 0 THEN <<>>
    ELSE LET before == FlaggedUpTo(xs, Flag, k - 1)
         IN  IF Flag(xs, k) THEN Append(before, k - 1) ELSE before

detectAnomaliesWithZScore(xs) ==
    [anomalyIndices |-> FlaggedUpTo(xs, ExceedsThreshold, Len(xs)),
     anomalyScores |-> [i \in 1..Len(xs) |-> NormalizedZScore(xs, i)],
     threshold |-> ZScoreThreshold]

\* ---- detectAnomaliesWithIQR ----

\* xs with x put in before the first larger element.
RECURSIVE InsertSorted(_, _)
InsertSorted(xs, x) ==
    IF Len(xs) = 0 THEN <<x>>
    ELSE IF x < Head(xs) THEN <<x>> \o xs
    ELSE <<Head(xs)>> \o InsertSorted(Tail(xs), x)

RECURSIVE SortFirst(_, _)
SortFirst(xs, k) ==
    IF k = 0 THEN <<>> ELSE InsertSorted(SortFirst(xs, k - 1), xs[k])

SortedValuesUnsorted(xs) == xs

\* [...values].sort((a, b) => a - b)
SortedValues(xs) == SortFirst(xs, Len(xs))

\* The quartiles and limits of the detector, in halves; for an empty series
\* sortedValues[0] is undefined and all of them are NaN.
IqrBounds(xs, k) ==
    IF Len(xs) = 0
    THEN [isNaN |-> TRUE, q1 |-> 0, q3 |-> 0, lowerBound |-> 0, upperBound |-> 0]
    ELSE LET sortedValues == SortedValues(xs)
             q1Index == Len(xs) \div 4
             q3Index == (3 * Len(xs)) \div 4
             q1 == sortedValues[q1Index + 1]
             q3 == sortedValues[q3Index + 1]
             iqr == q3 - q1
         IN  [isNaN |-> FALSE, q1 |-> 2 * q1, q3 |-> 2 * q3,
              lowerBound |-> 2 * q1 - iqr * k,
              upperBound |-> 2 * q3 + iqr * k]

\* value < lowerBound || value > upperBound
OutsideBounds(b, value) ==
    ~b.isNaN /\ (2 * value < b.lowerBound \/ 2 * value > b.upperBound)

\* Math.min(num/den, 1) for den # 0.
MinWithOne(num, den) ==
    LET n == IF den < 0 THEN -num ELSE num
        d == IF den < 0 THEN -den ELSE den
    IN  IF n >= d THEN Score(1, 1) ELSE Score(n, d)

\* anomalyScores[index] of the IQR detector.
IqrScore(b, value) ==
    IF b.isNaN THEN ScoreNaN
    ELSE IF 2 * value < b.lowerBound
    THEN MinWithOne(b.lowerBound - 2 * value,
                    IF b.lowerBound # 0 THEN b.lowerBound ELSE 2)
    ELSE IF 2 * value > b.upperBound
    THEN MinWithOne(2 * value - b.upperBound,
                    IF b.upperBound # 0 THEN b.upperBound ELSE 2)
    ELSE LET range == b.upperBound - b.lowerBound
             distanceFromCenter == Abs(4 * value - (2 * b.lowerBound + range))
         IN  IF range = 0 THEN ScoreNaN
             ELSE Score(distanceFromCenter, 4 * range)

detectAnomaliesWithIQR(xs, k) ==
    LET b == IqrBounds(xs, k)
        Flag(ys, i) == OutsideBounds(b, ys[i])
    IN  [anomalyIndices |-> FlaggedUpTo(xs, Flag, Len(xs)),
         anomalyScores |-> [i \in 1..Len(xs) |-> IqrScore(b, xs[i])],
         threshold |-> [num |-> k, den |-> 2]]

\* ---- the two detectors as operations ----

NoMethodResult ==
    [method |-> "none",
     result |-> [anomalyIndices |-> <<>>, anomalyScores |-> <<>>,
                 threshold |-> [num |-> 0, den |-> 1]],
     bounds |-> IqrBounds(<<>>, 0)]

UNCHANGED_statisticRest ==
    /\ UNCHANGED <<ensembleVars, classifierVars, pipelineVars>>
    /\ UNCHANGED <<weightVars, calculatorVars, engineVars, detectorVars>>

\* methods.zScore = this.detectAnomaliesWithZScore(values)
RunZScore ==
    /\ methodResult.method = "none"
    /\ methodResult' = [method |-> "zScore",
                        result |-> detectAnomaliesWithZScore(series.values),
                        bounds |-> IqrBounds(<<>>, 0)]
    /\ UNCHANGED series
    /\ UNCHANGED_statisticRest

\* methods.iqr = this.detectAnomaliesWithIQR(values)
RunIQR ==
    /\ methodResult.method = "none"
    /\ methodResult' =
          [method |-> "iqr",
           result |-> detectAnomaliesWithIQR(series.values, series.iqrMultiplier),
           bounds |-> IqrBounds(series.values, series.iqrMultiplier)]
    /\ UNCHANGED series
    /\ UNCHANGED_statisticRest

InitStatistics ==
    /\ series \in [values : SeriesSet, iqrMultiplier : IqrMultipliers]
    /\ methodResult = NoMethodResult
    /\ IdleEnsemble
    /\ IdleClassifier
    /\ IdlePipeline
    /\ IdleWeights
    /\ IdleCalculators
    /\ IdleEngine
    /\ IdleDetector

NextStatistics == RunZScore \/ RunIQR

SpecStatistics == InitStatistics /\ [][NextStatistics]_vars

(***************************************************************************)
(* Claims about the statistical detectors                                  *)
(***************************************************************************)

IsConstant(xs) == Len(xs) >= 1 /\ \A i \in 1..Len(xs) : xs[i] = xs[1]

\* C17: for every constant-value series detectAnomaliesWithZScore returns
\* an empty anomalyIndices list and every entry of anomalyScores is the
\* number 0: no NaN or Infinity anywhere in the result.
C17_ConstantSeriesScoresZero ==
    (methodResult.method = "zScore" /\ IsConstant(series.values)) =>
        /\ methodResult.result.anomalyIndices = <<>>
        /\ \A i \in 1..Len(series.values) :
              /\ ~methodResult.result.anomalyScores[i].isNaN
              /\ methodResult.result.anomalyScores[i].num = 0

\* C18: for every non-empty series and every iqrMultiplier k >= 0 the
\* quartiles and limits of detectAnomaliesWithIQR satisfy
\* lowerBound <= Q1 <= Q3 <= upperBound.
C18_IqrBoundsOrdered ==
    (methodResult.method = "iqr" /\ Len(series.values) >= 1) =>
        /\ ~methodResult.bounds.isNaN
        /\ methodResult.bounds.lowerBound <= methodResult.bounds.q1
        /\ methodResult.bounds.q1 <= methodResult.bounds.q3
        /\ methodResult.bounds.q3 <= methodResult.bounds.upperBound

\* C18 happens: an unsorted series with distinct quartiles under the
\* default multiplier, so both limits lie strictly outside the quartiles.
C18_Witness ==
    /\ methodResult.method = "iqr"
    /\ series.values = <<4, 0, -3, 4, 0>>
    /\ series.iqrMultiplier = 3
    /\ methodResult.bounds.q1 = 0
    /\ methodResult.bounds.q3 = 8
    /\ methodResult.bounds.lowerBound = -12
    /\ methodResult.bounds.upperBound = 20

(***************************************************************************)
(* AnomalyDetector.detectDividendAnomalies                                 *)
(*                                                                         *)
(* An invocation is a frame with a program counter; one action is the code *)
(* that runs between two awaits.  The detector has the default             *)
(* configuration: useAutoencoder, featureEngineering and useCache on,      *)
(* ensembleMethod 'majority'.  The outputs of the distance-based and the   *)
(* reconstruction-based method depend on exponentials and on a trained     *)
(* network; they are kept as representatives that differ from every        *)
(* Z-score result by their threshold.                                      *)
(***************************************************************************)

\* Most detectDividendAnomalies invocations on the detector.
MaxDetections == 2

\* dividendData.length < 5 is not enough data.
MinObservations == 5

\* dividendData as the list of its values, or null.
NullData == [isNull |-> TRUE, items |-> <<>>]

Observations(xs) == [isNull |-> FALSE, items |-> xs]

\* A series of LongSeriesLen values: `usual` throughout, `last` at the end.
WithOutlier(usual, last) ==
    Observations([i \in 1..LongSeriesLen |->
                     IF i = LongSeriesLen THEN last ELSE usual])

DividendData ==
    {NullData, Observations(<<>>), Observations(<<4, 0, 4, 4>>),
     Observations(<<4, 4, 4, 4, 4>>), WithOutlier(4, 100),
     WithOutlier(100, 4)}

RECURSIVE MinOf(_, _)
MinOf(xs, k) ==
    IF k = 1 THEN xs[1] ELSE Min(MinOf(xs, k - 1), xs[k])

\* features.map(f => f[0]): the first column of engineerFeatures, which is
\* (value - min) / range with range = max - min, or 1 when that is 0.  The
\* column is kept in units of 1/range; the Z-score detector's result does
\* not depend on a positive unit.
FirstFeatureColumn(xs) == [i \in 1..Len(xs) |-> xs[i] - MinOf(xs, Len(xs))]

\* What detectAnomaliesWithIsolationForest returns when its try block
\* completes: normalized features are within [0,1], so no distance reaches
\* the contamination threshold 0.95 and nothing is flagged.
ForestResult(xs) ==
    [anomalyIndices |-> <<>>,
     anomalyScores |-> [i \in 1..Len(xs) |-> Score(1, 5)],
     threshold |-> [num |-> 19, den |-> 20]]

\* What detectAnomaliesWithAutoencoder returns when its try block
\* completes: the network flags the last observation or nothing.
AutoencoderResult(xs, flagged) ==
    [anomalyIndices |-> IF flagged THEN <<Len(xs) - 1>> ELSE <<>>,
     anomalyScores |-> [i \in 1..Len(xs) |->
                           IF flagged /\ i = Len(xs) THEN Score(4, 5)
                           ELSE Score(1, 5)],
     threshold |-> [num |-> 1, den |-> 10]]

\* The data a cache key can stand for: the key is built with
\* dividendData.map, which throws for null.
DetectorKeys == {d.items : d \in DividendData \ {NullData}}

\* this.detectAnomaliesWithZScore(values), for every series of DividendData.
ZScoreOnValues == [xs \in DetectorKeys |-> detectAnomaliesWithZScore(xs)]

\* this.detectAnomaliesWithIQR(values), with the default multiplier 1.5.
IqrOnValues == [xs \in DetectorKeys |-> detectAnomaliesWithIQR(xs, 3)]

\* this.detectAnomaliesWithZScore(features.map(f => f[0]))
ZScoreOnFirstColumn ==
    [xs \in DetectorKeys |->
        detectAnomaliesWithZScore(FirstFeatureColumn(xs))]

FallbackResultEmpty(xs) ==
    [anomalyIndices |-> <<>>, anomalyScores |-> <<>>,
     threshold |-> ZScoreThreshold]

\* The catch block of both methods:
\* this.detectAnomaliesWithZScore(features.map(f => f[0]))
FallbackResult(xs) == ZScoreOnFirstColumn[xs]

\* The indices flagged by at least Math.ceil(methodCount / 2) methods, in
\* the order combineAnomalyDetections first meets them.
RECURSIVE AllIndices(_, _)
AllIndices(ms, m) ==
    IF m = 0 THEN <<>>
    ELSE LET before == AllIndices(ms, m - 1)
         IN  before \o SelectSeq(ms[m].result.anomalyIndices,
                                 LAMBDA i : i \notin Range(before))

MajorityIndices(ms) ==
    SelectSeq(AllIndices(ms, Len(ms)),
              LAMBDA i :
                  Cardinality({m \in 1..Len(ms) :
                                  i \in Range(ms[m].result.anomalyIndices)})
                      >= MajorityThreshold(Len(ms)))

\* parseFloat(((count / length) * 100).toFixed(2)), in hundredths.
Percentage(count, length) == (2 * 10000 * count + length) \div (2 * length)

NoStats == [count |-> 0, percentage |-> 0]

\* No result yet.
NoDetection ==
    [anomalies |-> <<>>, stats |-> NoStats, methods |-> <<>>, error |-> FALSE,
     returned |-> FALSE]

\* return { anomalies: [], stats: { count: 0, percentage: 0 }, methods: {} }
EmptyDetection == [NoDetection EXCEPT !.returned = TRUE]

\* The record the catch block returns.
ErrorDetection == [NoDetection EXCEPT !.returned = TRUE, !.error = TRUE]

RECURSIVE Gcd(_, _)
Gcd(a, b) == IF b = 0 THEN a ELSE Gcd(b, a % b)

\* The number a method's score stands for, as a fraction.  The root of a
\* Z-score's square is taken exactly; the squares met here are squares of
\* fractions (the Z-score of one outlier among n - 1 equal values is the
\* root of n - 1, and n is LongSeriesLen).
ScoreValue(s) ==
    IF ~s.sq THEN [num |-> s.num, den |-> s.den]
    ELSE LET g == Gcd(s.num, s.den)
             n == s.num \div g
             d == s.den \div g
         IN  [num |-> CHOOSE r \in 0..n : r * r = n,
              den |-> CHOOSE r \in 1..d : r * r = d]

\* method.anomalyScores[index] || 1: a score of 0 or NaN is replaced by 1.
ScoreOrOne(s) ==
    IF s.isNaN \/ s.num = 0 THEN [num |-> 1, den |-> 1] ELSE ScoreValue(s)

\* Lines 155-165 over the first m methods: the sum of the scores of the
\* methods that flagged the index, and their number.
RECURSIVE ScoreSum(_, _, _)
ScoreSum(ms, index, m) ==
    IF m = 0 THEN [num |-> 0, den |-> 1, methodCount |-> 0]
    ELSE LET before == ScoreSum(ms, index, m - 1)
             sc == ScoreOrOne(ms[m].result.anomalyScores[index + 1])
         IN  IF index \in Range(ms[m].result.anomalyIndices)
             THEN [num |-> before.num * sc.den + sc.num * before.den,
                   den |-> before.den * sc.den,
                   methodCount |-> before.methodCount + 1]
             ELSE before

\* anomalyScore = methodCount > 0 ? anomalyScore / methodCount : 0
anomalyScoreOf(ms, index) ==
    LET parts == ScoreSum(ms, index, Len(ms))
    IN  IF parts.methodCount > 0
        THEN [num |-> parts.num, den |-> parts.den * parts.methodCount]
        ELSE [num |-> 0, den |-> 1]

\* a > 0.8 is 'high', a > 0.5 is 'medium', else 'low'.
severityOf(a) ==
    IF 5 * a.num > 4 * a.den THEN "high"
    ELSE IF 2 * a.num > a.den THEN "medium"
    ELSE "low"

AnomalyTypeFlipped(xs, index) ==
    IF Len(xs) * xs[index + 1] < SumTo(xs, Len(xs)) THEN "high_value"
    ELSE "low_value"

\* value > this.calculateMean(values) ? 'high_value' : 'low_value'
AnomalyType(xs, index) ==
    IF Len(xs) * xs[index + 1] > SumTo(xs, Len(xs)) THEN "high_value"
    ELSE "low_value"

\* Object.keys(methods).filter(method => ...anomalyIndices.includes(index))
detectedByOf(ms, index) ==
    LET flagging == SelectSeq(ms, LAMBDA m :
                                  index \in Range(m.result.anomalyIndices))
    IN  [m \in 1..Len(flagging) |-> flagging[m].name]

\* Lines 153-192: the anomaly object of an index.  The index stands for
\* the date; the percent deviation from the mean is left out.
AnomalyOf(f, index) ==
    LET anomalyScore == anomalyScoreOf(f.methods, index)
    IN  [index |-> index,
         value |-> f.data.items[index + 1],
         anomalyScore |-> anomalyScore,
         severity |-> severityOf(anomalyScore),
         type |-> AnomalyType(f.data.items, index),
         detectedBy |-> detectedByOf(f.methods, index)]

\* b.anomalyScore - a.anomalyScore > 0: b goes before a.
ScoreAbove(b, a) ==
    b.anomalyScore.num * a.anomalyScore.den
        > a.anomalyScore.num * b.anomalyScore.den

\* anomalies.sort((a, b) => b.anomalyScore - a.anomalyScore): descending,
\* equal scores in their first order.
RECURSIVE InsertByScore(_, _)
InsertByScore(as, a) ==
    IF Len(as) = 0 THEN <<a>>
    ELSE IF ScoreAbove(a, Head(as)) THEN <<a>> \o as
    ELSE <<Head(as)>> \o InsertByScore(Tail(as), a)

RECURSIVE SortedByScore(_, _)
SortedByScore(as, k) ==
    IF k = 0 THEN <<>> ELSE InsertByScore(SortedByScore(as, k - 1), as[k])

\* Lines 150-214: the result built from the methods map.
DetectionResult(f) ==
    LET anomalyIndices == MajorityIndices(f.methods)
        anomalies == [p \in 1..Len(anomalyIndices) |->
                         AnomalyOf(f, anomalyIndices[p])]
    IN  [anomalies |-> SortedByScore(anomalies, Len(anomalies)),
         stats |-> [count |-> Len(anomalyIndices),
                    percentage |-> Percentage(Len(anomalyIndices),
                                              Len(f.data.items))],
         methods |-> [m \in 1..Len(f.methods) |->
                         [name |-> f.methods[m].name,
                          anomalyCount |->
                              Len(f.methods[m].result.anomalyIndices),
                          threshold |-> f.methods[m].result.threshold]],
         error |-> FALSE,
         returned |-> TRUE]

NoDetectorEntry == [set |-> FALSE, data |-> NoDetection, timestamp |-> -1]

\* AnomalyDetector.isCacheValid(timestamp); cacheExpiration is 24 hours.
isDetectorCacheValid(timestamp) == (now - timestamp) < CacheExpiration

NewDetection(data) ==
    [data |-> data, pc |-> "initializing", methods |-> <<>>, failed |-> <<>>,
     training |-> "none", hit |-> FALSE, result |-> NoDetection]

InsufficientDataOffByOne(data) == Len(data.items) < MinObservations - 1

\* !dividendData || dividendData.length < 5
InsufficientData(data) == data.isNull \/ Len(data.items) < MinObservations

WithMethod(f, name, result) ==
    [f EXCEPT !.methods = Append(@, [name |-> name, result |-> result])]

\* A method whose try block threw: its catch block supplies the result.
WithFallback(f, name) ==
    [WithMethod(f, name, FallbackResult(f.data.items))
        EXCEPT !.failed = Append(@, name)]

CacheHitResultEmpty(entry) == EmptyDetection

\* return this.cache[cacheKey].data
CacheHitResult(entry) == entry.data

\* Lines 102-142: from the cache check to `await` of the distance-based
\* method, whose body has run by then.  The body is synchronous code over
\* the features: whether its try block completes (ok) does not vary from
\* call to call.
DetectionStart(f, ok) ==
    IF f.data.isNull
    THEN [f EXCEPT !.pc = "resolved", !.result = ErrorDetection]
    ELSE IF detector.useCache
            /\ detector.cache[f.data.items].set
            /\ isDetectorCacheValid(detector.cache[f.data.items].timestamp)
    THEN [f EXCEPT !.pc = "resolved", !.hit = TRUE,
                   !.result = CacheHitResult(detector.cache[f.data.items])]
    ELSE IF InsufficientData(f.data)
    THEN [f EXCEPT !.pc = "resolved", !.result = EmptyDetection]
    ELSE LET f1 == WithMethod(f, "zScore", ZScoreOnValues[f.data.items])
             f2 == WithMethod(f1, "iqr", IqrOnValues[f.data.items])
             f3 == IF ok THEN WithMethod(f2, "isolationForest",
                                         ForestResult(f.data.items))
                   ELSE WithFallback(f2, "isolationForest")
         IN  [f3 EXCEPT !.pc = "forest"]

\* The model states this.autoencoder can be in: null, loaded from storage,
\* created by createAndTrainAutoencoder and not fitted, or fitted.
AutoencoderStates == {"null", "loaded", "created", "trained"}

\* Lines 468-507 after the model is there: predict on a null model throws,
\* as can tensor code (ok = FALSE); otherwise the errors are thresholded.
AutoencoderPredict(f, model, ok, flagged) ==
    LET done == IF model # "null" /\ ok
                THEN WithMethod(f, "autoencoder",
                                AutoencoderResult(f.data.items, flagged))
                ELSE WithFallback(f, "autoencoder")
    IN  [done EXCEPT !.pc = "autoencoder", !.training = "none"]

UNCHANGED_detectorRest ==
    /\ UNCHANGED ensembleVars
    /\ UNCHANGED classifierVars
    /\ UNCHANGED pipelineVars
    /\ UNCHANGED weightVars
    /\ UNCHANGED calculatorVars
    /\ UNCHANGED engineVars
    /\ UNCHANGED statisticVars

\* Lines 150-222 for the frame: combine, build the result, return.
DetectionDone(f) ==
    [f EXCEPT !.pc = "resolved", !.result = DetectionResult(f)]

\* if (this.config.useCache) this.cache[cacheKey] = { data: result, ... }
DetectorCachePut(f) ==
    IF detector.useCache
    THEN [detector.cache EXCEPT ![f.data.items] =
             [set |-> TRUE, data |-> DetectionResult(f), timestamp |-> now]]
    ELSE detector.cache

\* detectDividendAnomalies(dividendData) up to its first await: initialize()
\* on a fresh detector, else the distance-based method.
BeginDetection(data) ==
    /\ Len(detections) < MaxDetections
    /\ detections' =
           Append(detections,
                  IF detector.initialized
                  THEN DetectionStart(NewDetection(data),
                                      ~detector.forestThrows)
                  ELSE NewDetection(data))
    /\ UNCHANGED detector
    /\ UNCHANGED_detectorRest

\* initialize settles: with useAutoencoder it has awaited loadModel (found:
\* a saved model was in storage); it sets initialized, and the invocation
\* runs on to its next await.
InitializeSettle(c, found) ==
    /\ detections[c].pc = "initializing"
    /\ found => detector.useAutoencoder
    /\ detector' = [detector EXCEPT !.initialized = TRUE,
                                    !.autoencoder = IF found THEN "loaded"
                                                    ELSE @]
    /\ detections' = [detections EXCEPT ![c] =
                          DetectionStart(@, ~detector.forestThrows)]
    /\ UNCHANGED_detectorRest

\* The distance-based method's promise settles.  Without useAutoencoder the
\* invocation runs to its end.  With it, detectAnomaliesWithAutoencoder
\* begins: without a model it calls createAndTrainAutoencoder, which throws
\* before assigning this.autoencoder (early) or assigns the new model and
\* awaits fit; with a model it predicts.
ForestSettle(c, early, ok, flagged) ==
    /\ detections[c].pc = "forest"
    /\ IF ~detector.useAutoencoder
       THEN /\ ~early /\ ok /\ ~flagged
            /\ detections' = [detections EXCEPT ![c] = DetectionDone(@)]
            /\ detector' = [detector EXCEPT
                               !.cache = DetectorCachePut(detections[c])]
       ELSE IF detector.autoencoder = "null"
       THEN /\ detector' = [detector EXCEPT !.autoencoder =
                                IF early THEN @ ELSE "created"]
            /\ detections' = [detections EXCEPT ![c].pc = "training",
                                  ![c].training = IF early THEN "early"
                                                  ELSE "fit"]
       ELSE /\ detections' = [detections EXCEPT ![c] =
                                  AutoencoderPredict(@, detector.autoencoder,
                                                     ok, flagged)]
            /\ UNCHANGED detector
    /\ UNCHANGED_detectorRest

\* createAndTrainAutoencoder settles: fit and save succeeded (fitted) or one
\* of them threw and the catch block returned false.  The caller ignores
\* the outcome and predicts with whatever this.autoencoder is by now.
AutoencoderTrainSettle(c, fitted, ok, flagged) ==
    /\ detections[c].pc = "training"
    /\ LET model == IF detections[c].training = "fit" /\ fitted
                       /\ detector.autoencoder = "created"
                    THEN "trained" ELSE detector.autoencoder
       IN  /\ detector' = [detector EXCEPT !.autoencoder = model]
           /\ detections' = [detections EXCEPT ![c] =
                                 AutoencoderPredict(@, model, ok, flagged)]
    /\ UNCHANGED_detectorRest

\* The reconstruction-based method's promise settles: lines 150-222.
DetectionFinish(c) ==
    /\ detections[c].pc = "autoencoder"
    /\ detections' = [detections EXCEPT ![c] = DetectionDone(@)]
    /\ detector' = [detector EXCEPT !.cache = DetectorCachePut(detections[c])]
    /\ UNCHANGED_detectorRest

\* A new detector; useAutoencoder and useCache are as configured.
InitDetector ==
    /\ detector \in
           [initialized : {FALSE}, autoencoder : {"null"},
            cache : {[k \in DetectorKeys |-> NoDetectorEntry]},
            useAutoencoder : BOOLEAN, useCache : BOOLEAN,
            forestThrows : BOOLEAN]
    /\ detections = <<>>
    /\ IdleEnsemble
    /\ IdleClassifier
    /\ IdlePipeline
    /\ IdleWeights
    /\ IdleCalculators
    /\ IdleEngine
    /\ IdleStatistics

NextDetector ==
    \/ \E data \in DividendData : BeginDetection(data)
    \/ \E c \in 1..Len(detections), found \in BOOLEAN :
           InitializeSettle(c, found)
    \/ \E c \in 1..Len(detections), early \in BOOLEAN, ok \in BOOLEAN,
          flagged \in BOOLEAN : ForestSettle(c, early, ok, flagged)
    \/ \E c \in 1..Len(detections), fitted \in BOOLEAN, ok \in BOOLEAN,
          flagged \in BOOLEAN : AutoencoderTrainSettle(c, fitted, ok, flagged)
    \/ \E c \in 1..Len(detections) : DetectionFinish(c)

SpecDetector == InitDetector /\ [][NextDetector]_vars

DetectionSettled(c) == detections[c].pc = "resolved"

\* The invocation ran the detection itself: its result is not a cached one.
DetectionComputed(c) ==
    /\ DetectionSettled(c)
    /\ ~detections[c].hit
    /\ ~InsufficientData(detections[c].data)

\* C19: detectDividendAnomalies called with null or with fewer than five
\* observations returns (it never throws) an empty anomalies list and the
\* stats count 0 and percentage 0, and no detection method has run.
C19_TooFewObservationsGiveEmptyResult ==
    \A c \in 1..Len(detections) :
        (detections[c].data.isNull
         \/ Len(detections[c].data.items) < MinObservations)
            => /\ detections[c].pc \in {"initializing", "resolved"}
               /\ detections[c].methods = <<>>
               /\ detections[c].failed = <<>>
               /\ DetectionSettled(c)
                      => /\ detections[c].result.returned
                         /\ detections[c].result.anomalies = <<>>
                         /\ detections[c].result.stats =
                                [count |-> 0, percentage |-> 0]
                         /\ detections[c].result.methods = <<>>

\* Both a null input and a four-observation input have returned.
C19_Witness ==
    /\ \E c \in 1..Len(detections) :
           DetectionSettled(c) /\ detections[c].data.isNull
    /\ \E c \in 1..Len(detections) :
           /\ DetectionSettled(c)
           /\ ~detections[c].data.isNull
           /\ Len(detections[c].data.items) = MinObservations - 1

MethodResultOf(f, name) ==
    LET m == CHOOSE m \in 1..Len(f.methods) : f.methods[m].name = name
    IN  f.methods[m].result

\* C20: when the distance-based or the reconstruction-based method fails
\* (also when training failed and there is no model), that method's result
\* is the Z-score detector's result on the first feature column, the other
\* methods' results are what they are without the failure, and the
\* detection returns a combined result without an error field.
C20_FailedMethodFallsBackToZScore ==
    \A c \in 1..Len(detections) :
        DetectionComputed(c) =>
            LET f == detections[c]
                xs == f.data.items
                onFirstColumn == ZScoreOnFirstColumn[xs]
            IN  /\ [m \in 1..Len(f.methods) |-> f.methods[m].name] =
                       IF detector.useAutoencoder
                       THEN <<"zScore", "iqr", "isolationForest",
                              "autoencoder">>
                       ELSE <<"zScore", "iqr", "isolationForest">>
                /\ MethodResultOf(f, "zScore") = ZScoreOnValues[xs]
                /\ MethodResultOf(f, "iqr") = IqrOnValues[xs]
                /\ MethodResultOf(f, "isolationForest") =
                       IF "isolationForest" \in Range(f.failed)
                       THEN onFirstColumn ELSE ForestResult(xs)
                /\ IF "autoencoder" \in Range(f.failed)
                   THEN MethodResultOf(f, "autoencoder") = onFirstColumn
                   ELSE detector.useAutoencoder => \E flagged \in BOOLEAN :
                            MethodResultOf(f, "autoencoder") =
                                AutoencoderResult(xs, flagged)
                /\ f.result.returned
                /\ ~f.result.error
                /\ f.result = DetectionResult(f)

\* Both methods failed on the series with the outlier, the second one
\* because training failed and no model exists; the outlier is reported.
C20_Witness ==
    \E c \in 1..Len(detections) :
        /\ DetectionComputed(c)
        /\ detections[c].failed = <<"isolationForest", "autoencoder">>
        /\ detector.autoencoder = "null"
        /\ Len(detections[c].data.items) = LongSeriesLen
        /\ Len(detections[c].result.anomalies) = 1
        /\ detections[c].result.anomalies[1].index = LongSeriesLen - 1

\* The 1-based positions of the values the IQR detector flagged.
IqrFlagged ==
    {i \in 1..Len(series.values) :
        (i - 1) \in Range(methodResult.result.anomalyIndices)}

\* C24: every score of a method result lies in [0,1]; in particular the
\* score the IQR detector gives a flagged value is a number that is never
\* negative and never above 1, also when the bound it lies beyond is
\* negative or zero.
C24_IqrFlaggedScoreInUnitInterval ==
    methodResult.method = "iqr" =>
        \A i \in IqrFlagged :
            LET s == methodResult.result.anomalyScores[i]
            IN  ~s.isNaN /\ 0 <= s.num /\ s.num <= s.den

\* C25: every value inside the IQR bounds gets a score strictly above 0 and
\* at most 0.5, also a value at the centre of the bounds and a series whose
\* IQR is 0.
C25_InsideScorePositiveAtMostHalf ==
    methodResult.method = "iqr" =>
        \A i \in 1..Len(series.values) \ IqrFlagged :
            LET s == methodResult.result.anomalyScores[i]
            IN  ~s.isNaN /\ 0 < s.num /\ 2 * s.num <= s.den

\* C23: the anomalyScore of every reported index is the arithmetic mean of
\* anomalyScores[index] over exactly the methods that flagged the index,
\* the average the 'weighted' policy of combineAnomalyDetections uses
\* (indexScores[index] / indexCounts[index]), also when a flagging method's
\* score for the index is 0.
C23_AnomalyScoreIsMeanOfFlaggingMethods ==
    combinedOf = Len(methods) =>
        LET acc == CollectMethods(EmptyAcc, methods, 1)
        IN  \A p \in 1..Len(combinedIndices) :
                /\ combinedScores[p].methodCount =
                       acc.indexCounts[combinedIndices[p]]
                /\ combinedScores[p].sum = acc.indexScores[combinedIndices[p]]

\* C21: every anomaly detectDividendAnomalies returns has type 'high_value'
\* exactly when its value is strictly greater than the mean of all values
\* of the input series, and 'low_value' otherwise.
C21_TypeIsHighIffAboveMean ==
    \A c \in 1..Len(detections) :
        DetectionSettled(c) =>
            LET xs == detections[c].data.items
                anomalies == detections[c].result.anomalies
            IN  \A p \in 1..Len(anomalies) :
                    /\ anomalies[p].value = xs[anomalies[p].index + 1]
                    /\ anomalies[p].type =
                           IF Len(xs) * anomalies[p].value
                                  > SumTo(xs, Len(xs))
                           THEN "high_value" ELSE "low_value"

\* One detection has reported the high outlier as 'high_value' and another
\* the low outlier as 'low_value'.
C21_Witness ==
    /\ \E c \in 1..Len(detections) :
           /\ DetectionSettled(c)
           /\ Len(detections[c].result.anomalies) = 1
           /\ detections[c].result.anomalies[1].value = 100
           /\ detections[c].result.anomalies[1].type = "high_value"
    /\ \E c \in 1..Len(detections) :
           /\ DetectionSettled(c)
           /\ Len(detections[c].result.anomalies) = 1
           /\ detections[c].result.anomalies[1].value = 4
           /\ detections[c].result.anomalies[1].type = "low_value"

C27_PlaceholderNeverCached ==
    /\ \A k \in Kinds, t \in Tickers : ~cache[k][t].data.degraded
    /\ \A c \in CallIds :
           /\ Has(calls[c], "forecast:hit") => ~calls[c].priceForecast.degraded
           /\ Has(calls[c], "sentiment:hit")
                  => ~calls[c].sentimentAnalysis.degraded
           /\ Has(calls[c], "anomaly:hit") => ~calls[c].anomalies.degraded

(***************************************************************************)
(* DataPipeline.processFii, one awaited call after the other               *)
(*                                                                         *)
(* The caller awaits every processFii before it makes the next one, and    *)
(* the clock moves between the calls only: a whole call is one action.  A  *)
(* frame records the hour of its call, so the result built by call c was   *)
(* built at calls[c].at.                                                   *)
(***************************************************************************)

\* Most processFii calls made one after the other.
MaxSequentialCalls == 3

\* What one stage of a call does.  hit: the cache check of the stage
\* passed; ok: the stage's model calls ran to the end; built: what they
\* return then; placeholder: what the catch block returns.
StageOutput(kind, t, ok, built, placeholder) ==
    IF CacheHit(kind, t) THEN cache[kind][t].data
    ELSE IF ok THEN built
    ELSE placeholder

\* The stage's own write to this.cache.<kind>[ticker], made for a result
\* it built.
StageCache(ch, kind, t, ok, built) ==
    IF ~CacheHit(kind, t) /\ ok THEN CachePut(ch, kind, t, built) ELSE ch

\* processFii(t) from its first line to its return, at the hour `now`.
\* collected: both collector calls resolved; the other flags say whether
\* the stage's model calls succeed if they are made.
ProcessFii(t, collected, forecastOk, trend, sentimentOk, anomalyOk) ==
    /\ Len(calls) < MaxSequentialCalls
    /\ LET c == Len(calls) + 1
           model == IF NeedsTraining THEN t ELSE forecaster.model
           enc == IF autoencoder = "-" THEN t ELSE autoencoder
           forecast == RealResult(c, trend, model)
           sentiment == RealResult(c, CHOOSE s \in SentimentTrends : TRUE, t)
           anomaly == RealResult(c, CHOOSE r \in RiskLevels : TRUE, enc)
           priceForecast ==
               StageOutput("forecasts", t, forecastOk, forecast,
                           ForecastPlaceholder(c))
           sentimentAnalysis ==
               StageOutput("sentiments", t, sentimentOk, sentiment,
                           SentimentPlaceholder(c))
           anomalies ==
               StageOutput("anomalies", t, anomalyOk, anomaly,
                           AnomalyPlaceholder(c))
           staged ==
               StageCache(StageCache(StageCache(cache, "forecasts", t,
                                                forecastOk, forecast),
                                     "sentiments", t, sentimentOk, sentiment),
                          "anomalies", t, anomalyOk, anomaly)
           frame ==
               [ticker |-> t, at |-> now, pc |-> "resolved",
                served |-> {k \in Kinds : CacheHit(k, t)},
                priceForecast |-> priceForecast,
                sentimentAnalysis |-> sentimentAnalysis,
                anomalies |-> anomalies,
                recommendations |->
                    generateRecommendations(priceForecast, sentimentAnalysis,
                                            anomalies)]
       IN  IF ~collected
           THEN /\ calls' = Append(calls,
                                   [frame EXCEPT !.pc = "rejected",
                                       !.served = {},
                                       !.priceForecast = NoResult,
                                       !.sentimentAnalysis = NoResult,
                                       !.anomalies = NoResult,
                                       !.recommendations = NoRecommendation])
                /\ UNCHANGED <<cache, forecaster, autoencoder>>
           ELSE /\ calls' = Append(calls, frame)
                /\ cache' = updateCache(staged, t, frame)
                /\ forecaster' =
                       IF ~CacheHit("forecasts", t) /\ forecastOk
                       THEN [trained |-> TRUE, model |-> model]
                       ELSE forecaster
                /\ autoencoder' =
                       IF ~CacheHit("anomalies", t) /\ anomalyOk
                       THEN enc ELSE autoencoder
    /\ UNCHANGED <<now, batch>>
    /\ UNCHANGED_others

NextSequential ==
    \/ Tick
    \/ \E t \in Tickers, collected \in BOOLEAN, forecastOk \in BOOLEAN,
          trend \in ForecastTrends, sentimentOk \in BOOLEAN,
          anomalyOk \in BOOLEAN :
           ProcessFii(t, collected, forecastOk, trend, sentimentOk, anomalyOk)

SpecSequential == InitPipeline /\ [][NextSequential]_vars

\* C26: a forecast, sentiment or anomaly result that processFii serves
\* from the pipeline cache was built by its model less than maxAge (4
\* hours) before that read.
C26_ServedResultsYoungerThanMaxAge ==
    \A c \in 1..Len(calls) :
        calls[c].pc = "resolved" =>
            \A k \in calls[c].served :
                calls[c].at - calls[Output(calls[c], k).by].at < MaxAge

\* C28: the score and the tier generateRecommendation returns are the
\* ones fused from the component scores of the mlResults and the
\* fundamentalData passed in that same call, also when an earlier call with
\* the same ticker and preferences but other mlResults was cached less than
\* cacheExpiration ago.
C28_ResultFusedFromOwnInputs ==
    \A c \in 1..Len(requests) :
        (Settled(c) /\ ~RecommendationThrows(requests[c].input)) =>
            LET own == FreshRecommendation(requests[c].input)
            IN  /\ requests[c].result.score = own.score
                /\ requests[c].result.recommendation = own.recommendation

\* C29: with mlResults whose priceForecast has an empty predictions list,
\* generateRecommendation returns a recommendation fused from the other
\* signals with price score 0 and without an error field, not the
\* hold/low fallback.
C29_EmptyPredictionsStillFused ==
    \A c \in 1..Len(requests) :
        (/\ Settled(c)
         /\ ~requests[c].hit
         /\ requests[c].input.mlResults = MlEmptyPredictions
         /\ ~requests[c].input.userPreferences.isNull) =>
            LET own == FreshRecommendation(requests[c].input)
            IN  /\ ~requests[c].result.error
                /\ requests[c].result.components.given
                /\ requests[c].result.components.priceScore = Num(0)
                /\ requests[c].result.score = own.score
                /\ requests[c].result.recommendation = own.recommendation

(***************************************************************************)
(* PriceForecaster: train, predict, evaluate, saveModel, loadModel         *)
(*                                                                         *)
(* One forecaster, as the pipeline holds it, with its methods called in    *)
(* any order by the pipeline and by other callers.  `calls` is the list of *)
(* the method invocations: the method, its caller, where it stands, how it *)
(* ended, and two readings taken at the call: this.trained, and whether a  *)
(* train had completed or a loadModel had succeeded by then.               *)
(***************************************************************************)
MaxForecasterCalls == 4

ForecasterCallers == {"pipeline", "direct"}

\* Some train() has run to its end or some loadModel() has returned true.
TrainedOrLoaded ==
    \E c \in 1..Len(calls) :
        calls[c].op \in {"train", "loadModel"} /\ calls[c].outcome = "ok"

ForecasterCall(op, by, pc, outcome) ==
    [op |-> op, by |-> by, pc |-> pc, outcome |-> outcome,
     trained |-> forecaster.trained, ready |-> TrainedOrLoaded]

\* if (!this.trained || !this.model) throw new Error('Modelo não treinado...')
NotTrainedModelOnly == forecaster.model = "-"

NotTrained == ~forecaster.trained \/ forecaster.model = "-"

\* A guarded method: it rejects with 'Modelo não treinado' at the guard;
\* past the guard it ends well or (ok = FALSE) with another error: too
\* few prices, a tensor that cannot be built, a save that fails.
GuardedOutcome(ok) ==
    IF NotTrained THEN "notTrained" ELSE IF ok THEN "ok" ELSE "error"

\* train(historicalPrices) up to `await this.model.fit(...)`: prepareData
\* may throw (ok = FALSE) before this.model is replaced.
ForecasterTrain(by, ok) ==
    /\ Len(calls) < MaxForecasterCalls
    /\ IF ok
       THEN /\ forecaster' = [forecaster EXCEPT !.model = "m"]
            /\ calls' = Append(calls, ForecasterCall("train", by, "fit", "-"))
       ELSE /\ calls' = Append(calls,
                            ForecasterCall("train", by, "done", "error"))
            /\ UNCHANGED forecaster

\* this.model.fit settles: this.trained = true, or train rejects.  The
\* pipeline goes on to predict once its `await train(prices)` resumes.
ForecasterFitSettle(c, ok, predictOk) ==
    /\ c \in 1..Len(calls)
    /\ calls[c].op = "train" /\ calls[c].pc = "fit"
    /\ forecaster' = IF ok THEN [forecaster EXCEPT !.trained = TRUE]
                           ELSE forecaster
    /\ LET settled == [calls EXCEPT ![c].pc = "done",
                                    ![c].outcome = IF ok THEN "ok"
                                                         ELSE "error"]
       IN  calls' =
             IF ok /\ calls[c].by = "pipeline"
             THEN Append(settled,
                     [op |-> "predict", by |-> "pipeline", pc |-> "done",
                      outcome |-> IF forecaster.model = "-" THEN "notTrained"
                                  ELSE IF predictOk THEN "ok" ELSE "error",
                      trained |-> TRUE, ready |-> TRUE])
             ELSE settled

\* predict(recentPrices, days), evaluate(testPrices), saveModel(): none of
\* them assigns this.trained or this.model.
ForecasterGuarded(op, ok) ==
    /\ Len(calls) < MaxForecasterCalls
    /\ calls' = Append(calls,
                    ForecasterCall(op, "direct", "done", GuardedOutcome(ok)))
    /\ UNCHANGED forecaster

\* loadModel() up to `await tf.loadLayersModel(...)`.
ForecasterLoadModel ==
    /\ Len(calls) < MaxForecasterCalls
    /\ calls' = Append(calls,
                    ForecasterCall("loadModel", "direct", "load", "-"))
    /\ UNCHANGED forecaster

\* loadLayersModel settles.  When it rejects nothing is assigned; when it
\* resolves this.model is assigned, and reading the stored parameters may
\* still throw (params = FALSE) before this.trained = true.  Every throw
\* is caught and loadModel returns false.
ForecasterLoadSettle(c, loaded, params) ==
    /\ c \in 1..Len(calls)
    /\ calls[c].op = "loadModel" /\ calls[c].pc = "load"
    /\ forecaster' =
         IF ~loaded THEN forecaster
         ELSE IF ~params THEN [forecaster EXCEPT !.model = "m"]
         ELSE [trained |-> TRUE, model |-> "m"]
    /\ calls' = [calls EXCEPT ![c].pc = "done",
                              ![c].outcome = IF loaded /\ params THEN "ok"
                                             ELSE "false"]

\* DataPipeline.generatePriceForecast past its cache check: train when
\* the forecaster is not trained, predict otherwise.
ForecasterFromPipeline(ok) ==
    /\ Len(calls) < MaxForecasterCalls
    /\ IF NeedsTraining
       THEN ForecasterTrain("pipeline", ok)
       ELSE /\ calls' = Append(calls,
                  ForecasterCall("predict", "pipeline", "done",
                                 GuardedOutcome(ok)))
            /\ UNCHANGED forecaster

NextForecaster ==
    /\ \/ \E ok \in BOOLEAN : ForecasterTrain("direct", ok)
       \/ \E c \in 1..(MaxForecasterCalls + 2), ok \in BOOLEAN,
             predictOk \in BOOLEAN : ForecasterFitSettle(c, ok, predictOk)
       \/ \E op \in {"predict", "evaluate", "saveModel"}, ok \in BOOLEAN :
             ForecasterGuarded(op, ok)
       \/ ForecasterLoadModel
       \/ \E c \in 1..(MaxForecasterCalls + 2), loaded \in BOOLEAN,
             params \in BOOLEAN : ForecasterLoadSettle(c, loaded, params)
       \/ \E ok \in BOOLEAN : ForecasterFromPipeline(ok)
    /\ UNCHANGED <<now, cache, autoencoder, batch>>
    /\ UNCHANGED_others

SpecForecaster == InitPipeline /\ [][NextForecaster]_vars

\* C30: predict, evaluate and saveModel called before any train() has
\* completed and before any loadModel() has succeeded reject with the
\* 'Modelo não treinado' error; this.trained, once true, stays true; and
\* the pipeline starts a train only on a forecaster whose trained flag is
\* false.
C30_GatedOnTraining ==
    /\ [](\A c \in 1..Len(calls) :
            /\ (/\ calls[c].op \in {"predict", "evaluate", "saveModel"}
                /\ ~calls[c].ready) => calls[c].outcome = "notTrained"
            /\ (calls[c].op = "train" /\ calls[c].by = "pipeline") =>
                   ~calls[c].trained)
    /\ [][forecaster.trained => forecaster'.trained]_vars

\* A predict was rejected as untrained while a fit or a load had already
\* assigned this.model, and the pipeline's own train completed later.
C30_Witness ==
    /\ forecaster.trained
    /\ \E c, d, e \in 1..Len(calls) :
          /\ c < d
          /\ calls[c].op = "train" /\ calls[c].by = "pipeline"
          /\ calls[c].outcome = "ok"
          /\ calls[d].op \in {"predict", "evaluate", "saveModel"}
          /\ ~calls[d].ready /\ calls[d].outcome = "notTrained"
          /\ calls[e].op = "predict" /\ calls[e].by = "pipeline"
          /\ calls[e].outcome = "ok"

====
